---- MODULE Spec2Model ----
(***************************************************************************)
(* GDP Reconciliation Lab: the scenario generators (data.js and its two    *)
(* earlier drafts), the exact-sum integer partitioner, and the page logic  *)
(* that records placements and recomputes the three GDP totals.            *)
(***************************************************************************)
EXTENDS Integers, Sequences, FiniteSets, TLC

VARIABLES
  pArgs,      \* partition called in isolation: [amount, k, minPart]
  pOut,       \* <<>> before the call; the returned array after it
  gArgs,      \* generateScenario called in isolation: [gen, d], d the draws
  gOut,       \* NoScenario before the call; the returned scenario after it
  activeTab,  \* the ledger whose panel is open
  scenario,   \* NoScenario (null) until newScenario first returns
  placements, \* per ledger, card id -> bin
  draggedId,  \* the card of the last dragstart, NoId (null) before it
  dragging,   \* a drag that started on a card is under way
  doc,        \* the attached card elements: id -> [parent, amount, ledger, mark]
  els,        \* the text of the totals, the status line, the inventory line
  report,     \* what checkAnswers reported, if it is the handler that ran last
  lastOp,     \* the handler that ran last, or the statement of newScenario
              \* that ran last while newScenario is taken step by step
  drops,      \* drop events so far
  rounds      \* newScenario calls so far

partVars == <<pArgs, pOut>>
genVars == <<gArgs, gOut>>
pageVars == <<activeTab, scenario, placements, draggedId, dragging, doc, els, report,
              lastOp, drops, rounds>>
vars == <<pArgs, pOut, gArgs, gOut, activeTab, scenario, placements, draggedId,
          dragging, doc, els, report, lastOp, drops, rounds>>

----------------------------------------------------------------------------
NoScenario == [none |-> TRUE]

(* Arithmetic helpers                                                      *)

Max(a, b) == IF a >= b THEN a ELSE b

Min(a, b) == IF a <= b THEN a ELSE b

Abs(x) == IF x < 0 THEN -x ELSE x

\* Math.round(num / den) for den > 0: floor(x + 1/2), ties towards +infinity.
round(num, den) == (2 * num + den) \div (2 * den)

clamp(x, lo, hi) == Max(lo, Min(hi, x))

RECURSIVE SumSeq(_)
SumSeq(s) == IF s = <<>> THEN 0 ELSE s[1] + SumSeq(Tail(s))

\* Math.random() is modelled as r / RandDen with r in 0 .. RandDen - 1.
RandDen == 1000

randInt(min, max, r) == ((r * (max - min + 1)) \div RandDen) + min

----------------------------------------------------------------------------
(* shuffle: Fisher-Yates from the last index down; js[i] is the draw       *)
(* Math.floor(Math.random() * (i + 1)) made at 0-based index i.            *)

RECURSIVE shuffleFrom(_, _, _)
shuffleFrom(a, i, js) ==
  IF i <= 0 THEN a
  ELSE LET j == js[i]
       IN shuffleFrom([a EXCEPT ![i + 1] = a[j + 1], ![j + 1] = a[i + 1]], i - 1, js)

shuffle(arr, js) == shuffleFrom(arr, Len(arr) - 1, js)

\* every sequence of draws shuffle can make on an array of n elements
RECURSIVE ShuffleDraws(_)
ShuffleDraws(n) ==
  IF n <= 1 THEN {<<>>}
  ELSE {Append(js, j) : js \in ShuffleDraws(n - 1), j \in 0..(n - 1)}

\* every sequence of n draws take = randInt(0, remaining) of partition's loop
RECURSIVE TakeDraws(_, _)
TakeDraws(remaining, n) ==
  IF n <= 0 THEN {<<>>}
  ELSE UNION {{<<t>> \o rest : rest \in TakeDraws(remaining - t, n - 1)} : t \in 0..remaining}

\* parts after the loop: minPart + take for the first k-1, the rest in the last
fillParts(k, minPart, remaining, takes) ==
  [i \in 1..k |-> IF i < k THEN minPart + takes[i]
                  ELSE minPart + (remaining - SumSeq(takes))]

----------------------------------------------------------------------------
(* partition of data.js                                                    *)

partition_lastKeepsMin(amount, k, minPart, takes, js) ==
  LET sign == IF amount < 0 THEN -1 ELSE 1
      A == Abs(amount)
      mp == Max(0, minPart)
      remaining == A - k * mp
  IN IF k <= 1 THEN <<sign * A>>
     ELSE IF A = 0 THEN [i \in 1..k |-> 0]
     ELSE IF remaining < 0 THEN [i \in 1..k |-> IF i = k THEN sign * A ELSE 0]
     ELSE LET parts == [i \in 1..k |-> IF i < k THEN mp + takes[i] ELSE mp]
              out == shuffle(parts, js)
          IN [i \in 1..k |-> sign * out[i]]

partition_fillsZero(amount, k, minPart, takes, js) ==
  LET sign == IF amount < 0 THEN -1 ELSE 1
      A == Abs(amount)
      mp == Max(0, minPart)
      remaining == A - k * mp
  IN IF k <= 1 THEN <<sign * A>>
     ELSE IF A = 0 THEN [i \in 1..k |-> 0]
     ELSE IF remaining < 0 THEN [i \in 1..k |-> IF i = k THEN sign * A ELSE 0]
     ELSE LET parts == fillParts(k, 0, remaining + k * mp, takes)
              out == shuffle(parts, js)
          IN [i \in 1..k |-> sign * out[i]]

partition_fallbackKeepsMin(amount, k, minPart, takes, js) ==
  LET sign == IF amount < 0 THEN -1 ELSE 1
      A == Abs(amount)
      mp == Max(0, minPart)
      remaining == A - k * mp
  IN IF k <= 1 THEN <<sign * A>>
     ELSE IF A = 0 THEN [i \in 1..k |-> 0]
     ELSE IF remaining < 0
          THEN [i \in 1..k |-> IF i = k THEN sign * (A - (k - 1) * mp) ELSE sign * mp]
     ELSE LET parts == fillParts(k, mp, remaining, takes)
              out == shuffle(parts, js)
          IN [i \in 1..k |-> sign * out[i]]

partition_dropsSign(amount, k, minPart, takes, js) ==
  LET A == Abs(amount)
      mp == Max(0, minPart)
      remaining == A - k * mp
  IN IF k <= 1 THEN <<amount>>
     ELSE IF A = 0 THEN [i \in 1..k |-> 0]
     ELSE IF remaining < 0 THEN [i \in 1..k |-> IF i = k THEN amount ELSE 0]
     ELSE shuffle(fillParts(k, mp, remaining, takes), js)

partition(amount, k, minPart, takes, js) ==
  LET sign == IF amount < 0 THEN -1 ELSE 1
      A == Abs(amount)
      mp == Max(0, minPart)
      remaining == A - k * mp
  IN IF k <= 1 THEN <<sign * A>>
     ELSE IF A = 0 THEN [i \in 1..k |-> 0]
     ELSE IF remaining < 0 THEN [i \in 1..k |-> IF i = k THEN sign * A ELSE 0]
     ELSE LET parts == fillParts(k, mp, remaining, takes)
              out == shuffle(parts, js)
          IN [i \in 1..k |-> sign * out[i]]

(* partition of the 4-firm residual draft                                  *)

partitionResidual(amount, k, minPart, takes, js) ==
  LET remaining == amount - k * minPart
  IN IF k <= 1 THEN <<amount>>
     ELSE IF remaining < 0 THEN [i \in 1..k |-> IF i = k THEN amount ELSE 0]
     ELSE shuffle(fillParts(k, minPart, remaining, takes), js)

----------------------------------------------------------------------------
(* The random numbers of one generateScenario run.  The target and the     *)
(* five noise terms are drawn on their own; every other Math.random() call *)
(* takes its value from a stream chosen by d.seed: stream 0 always returns *)
(* 0, stream 1 always returns the largest value below 1, the others mix.   *)
(* A call is named by the source line that makes it and by its ordinal n   *)
(* among the calls made from that line.                                    *)

rnd(d, line, n) ==
  IF d.seed = 0 THEN 0
  ELSE IF d.seed = 1 THEN RandDen - 1
  ELSE ((d.seed * 389 + line * 31 + n * 17) * 7919) % RandDen

\* the takes of partition's loop, drawn from the stream
RECURSIVE takesAt(_, _, _, _, _)
takesAt(d, line, n, remaining, count) ==
  IF count <= 0 THEN <<>>
  ELSE LET take == randInt(0, remaining, rnd(d, line, n))
       IN <<take>> \o takesAt(d, line, n + 1, remaining - take, count - 1)

\* the draws of shuffle on an array of len elements, drawn from the stream
jsAt(d, line, n, len) ==
  [i \in 1..(len - 1) |-> randInt(0, i, rnd(d, line, n + i))]

partitionAt_defaultMinPart(d, line, n, amount, k, minPart) ==
  LET remaining == Abs(amount) - k * 1
      takes == IF k >= 2 /\ remaining >= 0
               THEN takesAt(d, line, n, remaining, k - 1) ELSE <<>>
  IN partition(amount, k, 1, takes, jsAt(d, line, n + 10, k))

\* partition(amount, k, minPart) called from `line`, draws numbered from n
partitionAt(d, line, n, amount, k, minPart) ==
  LET remaining == Abs(amount) - k * Max(0, minPart)
      takes == IF k >= 2 /\ remaining >= 0
               THEN takesAt(d, line, n, remaining, k - 1) ELSE <<>>
  IN partition(amount, k, minPart, takes, jsAt(d, line, n + 10, k))

shuffleAt(d, line, n, arr) == shuffle(arr, jsAt(d, line, n, Len(arr)))

RECURSIVE Flatten(_)
Flatten(ss) == IF ss = <<>> THEN <<>> ELSE ss[1] \o Flatten(Tail(ss))

----------------------------------------------------------------------------
(* generateScenario of data.js                                             *)

IINV_MIN == -60
IINV_MAX == 120

firms ==
  << [keyOut |-> "P_S_OUT", keyInt |-> "P_S_INT", name |-> "SteelCo"],
     [keyOut |-> "P_A_OUT", keyInt |-> "P_A_INT", name |-> "AutoCo"],
     [keyOut |-> "P_P_OUT", keyInt |-> "P_P_INT", name |-> "PortCo"],
     [keyOut |-> "P_M_OUT", keyInt |-> "P_M_INT", name |-> "MachCo"] >>

\* step 2: C, G, X, M and I_fixed, each a share of the target plus noise
drawComponents(d) ==
  [C |-> clamp(round(58 * d.GDP_TARGET + 100 * d.nC, 100), 70, 420),
   G |-> clamp(round(18 * d.GDP_TARGET + 100 * d.nG, 100), 20, 200),
   X |-> clamp(round(14 * d.GDP_TARGET + 100 * d.nX, 100), 10, 200),
   M |-> clamp(round(20 * d.GDP_TARGET + 100 * d.nM, 100), 10, 240),
   I_fixed |-> clamp(round(20 * d.GDP_TARGET + 100 * d.nI, 100), 15, 240)]

\* I_inv = GDP_TARGET - C - I_fixed - G - (X - M)
solveInventory(T, c) == T - c.C - c.I_fixed - c.G - (c.X - c.M)

nudgeBelow_raisesC(T, c) ==
  IF solveInventory(T, c) < IINV_MIN
  THEN [c EXCEPT !.C = clamp(c.C + (IINV_MIN - solveInventory(T, c)), 40, 450)]
  ELSE c

\* if (I_inv < IINV_MIN): C is reduced by the shortfall
nudgeBelow(T, c) ==
  IF solveInventory(T, c) < IINV_MIN
  THEN [c EXCEPT !.C = clamp(c.C - (IINV_MIN - solveInventory(T, c)), 40, 450)]
  ELSE c

\* if (I_inv > IINV_MAX): C is raised by the excess
nudgeAbove(T, c) ==
  IF solveInventory(T, c) > IINV_MAX
  THEN [c EXCEPT !.C = clamp(c.C + (solveInventory(T, c) - IINV_MAX), 40, 500)]
  ELSE c

\* meta.components: inventory investment is the residual left by the others
withInventory(T, c) ==
  [C |-> c.C, I_fixed |-> c.I_fixed, I_inv |-> solveInventory(T, c),
   I_total |-> c.I_fixed + solveInventory(T, c), G |-> c.G, X |-> c.X, M |-> c.M]

components_clampsInventory(d) ==
  LET c == drawComponents(d)
      I_inv == clamp(solveInventory(d.GDP_TARGET, c), IINV_MIN, IINV_MAX)
  IN [C |-> c.C, I_fixed |-> c.I_fixed, I_inv |-> I_inv,
      I_total |-> c.I_fixed + I_inv, G |-> c.G, X |-> c.X, M |-> c.M]

components(d) ==
  withInventory(d.GDP_TARGET,
                nudgeAbove(d.GDP_TARGET, nudgeBelow(d.GDP_TARGET, drawComponents(d))))

\* step 3: .map(x => Math.max(10, x)), then the drift is put on the first part
driftToFirst(T, floored) ==
  IF SumSeq(floored) # T
  THEN [floored EXCEPT ![1] = floored[1] + (T - SumSeq(floored))]
  ELSE floored

floorParts(raw) == [i \in 1..Len(raw) |-> Max(10, raw[i])]

vaParts_minFifty(d) ==
  driftToFirst(d.GDP_TARGET, floorParts(partitionAt(d, 115, 0, d.GDP_TARGET, 4, 50)))

vaParts(d) ==
  driftToFirst(d.GDP_TARGET, floorParts(partitionAt(d, 115, 0, d.GDP_TARGET, 4, 10)))

\* k = 0.2 + Math.random() * 0.9; INT = max(0, round(k * VA)); OUT = VA + INT
firmStatsOf(d, va) ==
  [idx \in 1..4 |->
     [keyOut |-> firms[idx].keyOut, keyInt |-> firms[idx].keyInt,
      name |-> firms[idx].name, VA |-> va[idx],
      INT |-> Max(0, round((200 * RandDen + 900 * rnd(d, 128, idx)) * va[idx],
                           1000 * RandDen)),
      OUT |-> va[idx] + Max(0, round((200 * RandDen + 900 * rnd(d, 128, idx)) * va[idx],
                                     1000 * RandDen))]]

firmStats(d) == firmStatsOf(d, vaParts(d))

incomeStatsOf_wideShare(d, fs) ==
  [idx \in 1..4 |->
     [name |-> fs[idx].name,
      W |-> round((550 * RandDen + 500 * rnd(d, 138, idx)) * fs[idx].VA, 1000 * RandDen),
      P |-> fs[idx].VA
            - round((550 * RandDen + 500 * rnd(d, 138, idx)) * fs[idx].VA, 1000 * RandDen)]]

\* wageShare = 0.55 + Math.random() * 0.25; W = round(wageShare * VA); P = VA - W
incomeStatsOf(d, fs) ==
  [idx \in 1..4 |->
     [name |-> fs[idx].name,
      W |-> round((550 * RandDen + 250 * rnd(d, 138, idx)) * fs[idx].VA, 1000 * RandDen),
      P |-> fs[idx].VA
            - round((550 * RandDen + 250 * rnd(d, 138, idx)) * fs[idx].VA, 1000 * RandDen)]]

incomeStats(d) == incomeStatsOf(d, firmStats(d))

specs_absAmount(amounts, ledger, bin, subtype) ==
  [i \in 1..Len(amounts) |->
     [ledger |-> ledger, amount |-> Abs(amounts[i]), correctBin |-> bin,
      subtype |-> subtype]]

\* a group of cards before ids are given: one per amount
specs(amounts, ledger, bin, subtype) ==
  [i \in 1..Len(amounts) |->
     [ledger |-> ledger, amount |-> amounts[i], correctBin |-> bin, subtype |-> subtype]]

productionSpecsOf(d, fs) ==
  Flatten([idx \in 1..4 |->
    specs(partitionAt(d, 164, 40 * idx, fs[idx].OUT,
                      randInt(2, 4, rnd(d, 164, 40 * idx + 30)), 3),
          "production", fs[idx].keyOut, "none")
    \o specs(partitionAt(d, 175, 40 * idx, fs[idx].INT,
                         randInt(2, 4, rnd(d, 175, 40 * idx + 30)), 1),
             "production", fs[idx].keyInt, "none")])

productionSpecs(d) == productionSpecsOf(d, firmStats(d))

\* the six candidate distractors of the expenditure ledger
xclPool(d) ==
  << randInt(8, 22, rnd(d, 294, 0)), randInt(6, 18, rnd(d, 295, 0)),
     randInt(10, 30, rnd(d, 296, 0)), randInt(6, 20, rnd(d, 297, 0)),
     randInt(8, 24, rnd(d, 298, 0)), randInt(6, 18, rnd(d, 299, 0)) >>

\* shuffle(xclPool).slice(0, randInt(3, 6))
expenditureDistractors(d) ==
  SubSeq(shuffleAt(d, 301, 0, xclPool(d)), 1, randInt(3, 6, rnd(d, 301, 20)))

expenditureSpecsOf(d, c) ==
  specs(partitionAt(d, 191, 0, c.C, randInt(3, 6, rnd(d, 191, 30)), 5),
        "expenditure", "E_C", "none")
  \o specs(partitionAt(d, 206, 0, c.G, randInt(2, 4, rnd(d, 206, 30)), 4),
           "expenditure", "E_G", "none")
  \o specs(partitionAt(d, 221, 0, c.X, randInt(1, 3, rnd(d, 221, 30)), 3),
           "expenditure", "E_X", "none")
  \o specs(partitionAt(d, 236, 0, c.M, randInt(2, 5, rnd(d, 236, 30)), 2),
           "expenditure", "E_M", "none")
  \o specs(partitionAt(d, 256, 0, c.I_fixed, randInt(2, 4, rnd(d, 256, 30)), 5),
           "expenditure", "E_I", "fixed")
  \o specs(partitionAt(d, 269, 0, c.I_inv, randInt(1, 2, rnd(d, 269, 30)), 1),
           "expenditure", "E_I", "inventory")
  \o specs(expenditureDistractors(d), "expenditure", "E_XCL", "none")

expenditureSpecs(d) == expenditureSpecsOf(d, components(d))

incXclPool(d) ==
  << randInt(8, 24, rnd(d, 348, 0)), randInt(8, 26, rnd(d, 349, 0)),
     randInt(10, 30, rnd(d, 350, 0)), randInt(6, 18, rnd(d, 351, 0)) >>

\* shuffle(incXclPool).slice(0, randInt(2, 4))
incomeDistractors(d) ==
  SubSeq(shuffleAt(d, 353, 0, incXclPool(d)), 1, randInt(2, 4, rnd(d, 353, 20)))

incomeSpecsOf(d, st) ==
  Flatten([idx \in 1..4 |->
    specs(partitionAt(d, 316, 40 * idx, st[idx].W,
                      randInt(2, 3, rnd(d, 316, 40 * idx + 30)), 4),
          "income", "I_W", "none")
    \o specs(partitionAt(d, 331, 40 * idx, st[idx].P,
                         randInt(1, 2, rnd(d, 331, 40 * idx + 30)), 2),
             "income", "I_P", "none")])
  \o specs(incomeDistractors(d), "income", "I_XCL", "none")

incomeSpecs(d) == incomeSpecsOf(d, incomeStats(d))

withIds_counterStuck(ss, prefix, offset) ==
  [i \in 1..Len(ss) |->
     [id |-> <<prefix, offset>>, ledger |-> ss[i].ledger, amount |-> ss[i].amount,
      correctBin |-> ss[i].correctBin, subtype |-> ss[i].subtype]]

\* nextId: one counter for all three ledgers, the prefix names the ledger
withIds(ss, prefix, offset) ==
  [i \in 1..Len(ss) |->
     [id |-> <<prefix, offset + i>>, ledger |-> ss[i].ledger, amount |-> ss[i].amount,
      correctBin |-> ss[i].correctBin, subtype |-> ss[i].subtype]]

inventoryIdsOf_allInvestment(cards) ==
  [i \in 1..Len(SelectSeq(cards, LAMBDA c : c.correctBin = "E_I")) |->
     SelectSeq(cards, LAMBDA c : c.correctBin = "E_I")[i].id]

\* inventoryCardIds: the ids of the cards pushed by the inventory loop
inventoryIdsOf(cards) ==
  [i \in 1..Len(SelectSeq(cards, LAMBDA c : c.subtype = "inventory")) |->
     SelectSeq(cards, LAMBDA c : c.subtype = "inventory")[i].id]

\* the returned object: each ledger shuffled, and the meta record
returnScenario(d, productionCards, expenditureCards, incomeCards) ==
  [productionCards |-> shuffleAt(d, 365, 0, productionCards),
   expenditureCards |-> shuffleAt(d, 366, 0, expenditureCards),
   incomeCards |-> shuffleAt(d, 367, 0, incomeCards),
   meta |-> [inventoryCardIds |-> inventoryIdsOf(expenditureCards),
             gdpTarget |-> d.GDP_TARGET,
             components |-> components(d)]]

numberCards(d, ps, es, is) ==
  returnScenario(d, withIds(ps, "p", 0), withIds(es, "e", Len(ps)),
                 withIds(is, "i", Len(ps) + Len(es)))

generateScenario_retriesNegativeInventory(d) ==
  IF components(d).I_inv < 0 THEN NoScenario
  ELSE numberCards(d, productionSpecs(d), expenditureSpecs(d), incomeSpecs(d))

generateScenario(d) ==
  numberCards(d, productionSpecs(d), expenditureSpecs(d), incomeSpecs(d))

----------------------------------------------------------------------------
(* generateScenario of the fixed 3-firm draft: four noise terms, one card  *)
(* per aggregate, ids p1..p6, e1..e8, i1..i7                               *)

\* C, G, X, M_cons with noise, kept within bounds; M_fuel is fixed; I starts
\* as the residual I_inv = 220 - C - G - X + (M_cons + M_fuel)
fixedDemand(d) ==
  [C |-> Max(110, Min(170, 140 + d.noiseC)),
   G |-> Max(25, Min(55, 40 + d.noiseG)),
   X |-> Max(15, Min(45, 30 + d.noiseX)),
   M_cons |-> Max(8, Min(35, 20 + d.noiseMcons)),
   M_fuel |-> 10,
   I |-> 220 - Max(110, Min(170, 140 + d.noiseC)) - Max(25, Min(55, 40 + d.noiseG))
             - Max(15, Min(45, 30 + d.noiseX))
             + (Max(8, Min(35, 20 + d.noiseMcons)) + 10)]

\* if (I < 10) { C -= (10 - I); I = 10; }
raiseInventory(e) ==
  IF e.I < 10 THEN [e EXCEPT !.C = e.C - (10 - e.I), !.I = 10] ELSE e

\* if (I > 80) { C += (I - 80); I = 80; }
capInventory(e) ==
  IF e.I > 80 THEN [e EXCEPT !.C = e.C + (e.I - 80), !.I = 80] ELSE e

\* outputs, intermediates, value added and wages of the three firms
fixedFirms(e) ==
  LET autoOutput == (e.C + e.G) + e.I
      autoIntermediate == 100 + 20
      autoVA == ((e.C + e.G) + e.I) - (100 + 20)
      autoW == Max(40, Min(110, round(7 * (((e.C + e.G) + e.I) - (100 + 20)), 10)))
      portOutput == 20 + e.X
      portVA == (20 + e.X) - e.M_fuel
      portW == Max(10, round(75 * ((20 + e.X) - e.M_fuel), 100))
  IN [C |-> e.C, G |-> e.G, X |-> e.X, M_cons |-> e.M_cons, M_fuel |-> e.M_fuel,
      I |-> e.I,
      autoOutput |-> autoOutput, autoIntermediate |-> autoIntermediate,
      autoVA |-> autoVA, autoW |-> autoW, autoPi |-> autoVA - autoW,
      steelOutput |-> 100, steelIntermediate |-> 20,
      steelVA |-> 100 - 20, steelW |-> 50, steelPi |-> (100 - 20) - 50,
      portOutput |-> portOutput, portIntermediate |-> e.M_fuel,
      portVA |-> portVA, portW |-> portW, portPi |-> portVA - portW]

fixedStats(d) == fixedFirms(capInventory(raiseInventory(fixedDemand(d))))

fixedCard(prefix, n, ledger, amount, bin) ==
  [id |-> <<prefix, n>>, ledger |-> ledger, amount |-> amount, correctBin |-> bin,
   subtype |-> "none"]

fixedCards(st) ==
  [productionCards |->
     << fixedCard("p", 1, "production", st.steelOutput, "P_S_OUT"),
        fixedCard("p", 2, "production", st.steelIntermediate, "P_S_INT"),
        fixedCard("p", 3, "production", st.autoOutput, "P_A_OUT"),
        fixedCard("p", 4, "production", st.autoIntermediate, "P_A_INT"),
        fixedCard("p", 5, "production", st.portOutput, "P_P_OUT"),
        fixedCard("p", 6, "production", st.portIntermediate, "P_P_INT") >>,
   expenditureCards |->
     << fixedCard("e", 1, "expenditure", st.C, "E_C"),
        fixedCard("e", 2, "expenditure", st.G, "E_G"),
        fixedCard("e", 3, "expenditure", st.I, "E_I"),
        fixedCard("e", 4, "expenditure", st.X, "E_X"),
        fixedCard("e", 5, "expenditure", st.M_cons, "E_M"),
        fixedCard("e", 6, "expenditure", st.M_fuel, "E_M"),
        fixedCard("e", 7, "expenditure", 15, "E_XCL"),
        fixedCard("e", 8, "expenditure", 12, "E_XCL") >>,
   incomeCards |->
     << fixedCard("i", 1, "income", st.steelW, "I_W"),
        fixedCard("i", 2, "income", st.steelPi, "I_P"),
        fixedCard("i", 3, "income", st.autoW, "I_W"),
        fixedCard("i", 4, "income", st.autoPi, "I_P"),
        fixedCard("i", 5, "income", st.portW, "I_W"),
        fixedCard("i", 6, "income", st.portPi, "I_P"),
        fixedCard("i", 7, "income", 10, "I_XCL") >>,
   gdpTarget |-> st.steelVA + st.autoVA + st.portVA]

generateScenarioFixed(d) == fixedCards(fixedStats(d))

----------------------------------------------------------------------------
(* generateScenario of the 4-firm residual draft: production is built from *)
(* the demands, then inventory investment is reset to the residual.  The   *)
(* solver is followed in the order of the source, each stage adding the    *)
(* constants it computes to the record of those computed before.           *)

partitionResidualAt(d, line, n, amount, k, minPart) ==
  LET remaining == amount - k * minPart
      takes == IF k >= 2 /\ remaining >= 0
               THEN takesAt(d, line, n, remaining, k - 1) ELSE <<>>
  IN partitionResidual(amount, k, minPart, takes, jsAt(d, line, n + 10, k))

\* splitWagesProfits: w = round(clamp(VA * share, 0, 1e9)), share drawn in
\* [lo, hi) percent; p = VA - w
splitWagesProfits(VA, lo, hi, r) ==
  [w |-> IF VA <= 0 THEN 0
         ELSE round(VA * (lo * RandDen + r * (hi - lo)), 100 * RandDen),
   p |-> VA - (IF VA <= 0 THEN 0
               ELSE round(VA * (lo * RandDen + r * (hi - lo)), 100 * RandDen))]

\* the macro components: domestic demands, imports, investment
residualDemand(d) ==
  [C_dom |-> clamp(round(55 * d.scale + 100 * d.nC, 100), 70, 260),
   G_dom |-> clamp(round(18 * d.scale + 100 * d.nG, 100), 20, 120),
   X |-> clamp(round(12 * d.scale + 100 * d.nX, 100), 10, 110),
   M_cons |-> clamp(round(10 * d.scale + 100 * d.nM, 100), 8, 130),
   M_ore |-> clamp(round(6 * d.scale, 100), 8, 40),
   M_fuel |-> clamp(round(4 * d.scale, 100), 6, 30),
   M_elec |-> clamp(round(5 * d.scale, 100), 6, 35),
   M_comp |-> clamp(round(3 * d.scale, 100), 4, 25),
   I_fixed |-> clamp(round(20 * d.scale + 100 * d.nI, 100), 20, 170),
   I_inv0 |-> clamp(round(8 * d.scale + 100 * d.nInv, 100), -20, 90)]

\* M_total and the allocation of final demand across AutoCo and PortCo
residualShares(d, s) ==
  s @@ [M_total |-> s.M_cons + s.M_ore + s.M_fuel + s.M_elec + s.M_comp,
        C_auto |-> round(s.C_dom * clamp(70 + d.sC, 55, 85), 100),
        C_port |-> s.C_dom - round(s.C_dom * clamp(70 + d.sC, 55, 85), 100),
        G_auto |-> round(s.G_dom * clamp(55 + d.sG, 35, 75), 100),
        G_port |-> s.G_dom - round(s.G_dom * clamp(55 + d.sG, 35, 75), 100),
        X_port |-> round(s.X * clamp(65 + d.sX, 45, 85), 100),
        X_auto |-> s.X - round(s.X * clamp(65 + d.sX, 45, 85), 100)]

\* machOutput, autoSales, autoOutput
residualSales(s) ==
  s @@ [machOutput |-> s.I_fixed,
        autoSales |-> s.C_auto + s.G_auto + s.X_auto,
        autoOutput |-> (s.C_auto + s.G_auto + s.X_auto) + s.I_inv0]

\* the intermediate linkages that depend on the outputs only
residualLinkages(s) ==
  s @@ [steelToAuto |-> clamp(round(45 * Max(s.autoOutput, 0), 100), 25, 220),
        steelToMach |-> clamp(round(35 * s.machOutput, 100), 10, 140),
        shipToAuto |-> clamp(round(10 * Max(s.autoOutput, 0), 100), 5, 60),
        shipToMach |-> clamp(round(8 * s.machOutput, 100), 3, 50)]

\* shipToSteel, and SteelCo's exports and output
residualSteel(d, s) ==
  s @@ [shipToSteel |-> clamp(round(8 * (s.steelToAuto + s.steelToMach), 100), 3, 50),
        steelExports |-> clamp(d.steelExports, 0, 30),
        steelOutput |-> s.steelToAuto + s.steelToMach + clamp(d.steelExports, 0, 30)]

\* portOutput and the intermediate inputs by firm
residualIntermediates(s) ==
  s @@ [portOutput |-> s.C_port + s.G_port + s.shipToAuto + s.shipToSteel
                       + s.shipToMach + s.X_port,
        steelIntermediate |-> s.M_ore + s.shipToSteel,
        autoIntermediate |-> s.steelToAuto + s.shipToAuto + s.M_elec,
        machIntermediate |-> s.steelToMach + s.shipToMach + s.M_comp,
        portIntermediate |-> s.M_fuel]

\* firm value added
residualValueAdded(s) ==
  s @@ [steelVA |-> s.steelOutput - s.steelIntermediate,
        autoVA |-> s.autoOutput - s.autoIntermediate,
        machVA |-> s.machOutput - s.machIntermediate,
        portVA |-> s.portOutput - s.portIntermediate]

\* GDP_prod, and I_inv reset to GDP_prod - C_dom - I_fixed - G_dom - X + M_total
residualInventory(s) ==
  s @@ [GDP_prod |-> s.steelVA + s.autoVA + s.machVA + s.portVA,
        I_inv |-> (s.steelVA + s.autoVA + s.machVA + s.portVA)
                  - s.C_dom - s.I_fixed - s.G_dom - s.X + s.M_total]

\* autoOutput2, autoVA_final, GDP_exp_final
residualAuto(s) ==
  s @@ [autoOutput2 |-> s.autoSales + s.I_inv,
        autoVA_final |-> (s.autoSales + s.I_inv) - s.autoIntermediate,
        GDP_exp_final |-> s.C_dom + s.I_fixed + s.I_inv + s.G_dom + s.X - s.M_total]

\* GDP_prod_final and the income splits
residualIncomes(d, s) ==
  s @@ [GDP_prod_final |-> s.steelVA + s.autoVA_final + s.machVA + s.portVA,
        steelInc |-> splitWagesProfits(s.steelVA, 55, 75, rnd(d, 146, 0)),
        autoInc |-> splitWagesProfits(s.autoVA_final, 55, 80, rnd(d, 147, 0)),
        machInc |-> splitWagesProfits(s.machVA, 55, 80, rnd(d, 148, 0)),
        portInc |-> splitWagesProfits(s.portVA, 60, 85, rnd(d, 149, 0))]

\* GDP_inc: wages plus profits over the four firms
residualGdpInc(s) ==
  s @@ [GDP_inc |-> (s.steelInc.w + s.steelInc.p) + (s.autoInc.w + s.autoInc.p)
                    + (s.machInc.w + s.machInc.p) + (s.portInc.w + s.portInc.p)]

residualStats(d) ==
  residualGdpInc(residualIncomes(d, residualAuto(residualInventory(
    residualValueAdded(residualIntermediates(residualSteel(d,
      residualLinkages(residualSales(residualShares(d, residualDemand(d)))))))))))

\* one partition call of the card section: k drawn from lo..hi on `line`
residualParts(d, line, amount, lo, hi, minPart) ==
  partitionResidualAt(d, line, 0, amount, randInt(lo, hi, rnd(d, line, 30)), minPart)

\* output cards: 2..hi lots per firm
residualOut(d, line, amount, hi, minPart, bin) ==
  specs(residualParts(d, line, amount, 2, hi, minPart), "production", bin, "none")

\* intermediate-purchase cards: 1..2 lots per purchase
residualInt(d, line, amount, minPart, bin) ==
  specs(residualParts(d, line, amount, 1, 2, minPart), "production", bin, "none")

residualProductionSpecsOf(d, st) ==
  residualOut(d, 168, st.steelOutput, 4, 2, "P_S_OUT")
  \o residualOut(d, 175, st.autoOutput2, 4, 5, "P_A_OUT")
  \o residualOut(d, 182, st.portOutput, 5, 2, "P_P_OUT")
  \o residualOut(d, 189, st.machOutput, 4, 2, "P_M_OUT")
  \o residualInt(d, 197, st.M_ore, 2, "P_S_INT")
  \o residualInt(d, 201, st.shipToSteel, 1, "P_S_INT")
  \o residualInt(d, 206, st.steelToAuto, 3, "P_A_INT")
  \o residualInt(d, 210, st.shipToAuto, 1, "P_A_INT")
  \o residualInt(d, 214, st.M_elec, 2, "P_A_INT")
  \o residualInt(d, 219, st.steelToMach, 2, "P_M_INT")
  \o residualInt(d, 223, st.shipToMach, 1, "P_M_INT")
  \o residualInt(d, 227, st.M_comp, 1, "P_M_INT")
  \o residualInt(d, 232, st.M_fuel, 2, "P_P_INT")

residualExp(d, line, amount, lo, hi, minPart, bin, subtype) ==
  specs(residualParts(d, line, amount, lo, hi, minPart), "expenditure", bin, subtype)

\* inventory cards: Math.abs(I_inv) is split, the sign is put back on each
signedParts(I_inv, invParts) ==
  [i \in 1..Len(invParts) |-> IF I_inv >= 0 THEN invParts[i] ELSE -invParts[i]]

\* import cards: consumer, ore, fuel, electronics, components
residualImportParts(d, st) ==
  residualParts(d, 297, st.M_cons, 1, 2, 2)
  \o residualParts(d, 298, st.M_ore, 1, 2, 1)
  \o residualParts(d, 299, st.M_fuel, 1, 2, 1)
  \o residualParts(d, 300, st.M_elec, 1, 2, 1)
  \o residualParts(d, 301, st.M_comp, 1, 2, 1)

xclTemplates(d) ==
  << randInt(8, 18, rnd(d, 311, 0)), randInt(6, 16, rnd(d, 312, 0)),
     randInt(8, 20, rnd(d, 313, 0)), randInt(6, 16, rnd(d, 314, 0)) >>

residualExpenditureSpecsOf(d, st) ==
  residualExp(d, 244, st.C_dom, 3, 6, 5, "E_C", "none")
  \o residualExp(d, 252, st.I_fixed, 2, 4, 5, "E_I", "fixed")
  \o specs(signedParts(st.I_inv, residualParts(d, 262, Abs(st.I_inv), 1, 2, 1)),
           "expenditure", "E_I", "inventory")
  \o residualExp(d, 282, st.G_dom, 2, 3, 5, "E_G", "none")
  \o residualExp(d, 289, st.X, 1, 3, 3, "E_X", "none")
  \o specs(shuffleAt(d, 296, 0, residualImportParts(d, st)),
           "expenditure", "E_M", "none")
  \o specs(SubSeq(shuffleAt(d, 316, 0, xclTemplates(d)), 1,
                  randInt(2, 4, rnd(d, 316, 20))),
           "expenditure", "E_XCL", "none")

\* splitIncomeCards for the nth firm
splitIncomeCards(d, n, wages, profits) ==
  specs(partitionResidualAt(d, 325, 40 * n, wages,
                            randInt(2, 3, rnd(d, 325, 40 * n + 30)), 5),
        "income", "I_W", "none")
  \o specs(partitionResidualAt(d, 331, 40 * n, profits,
                               randInt(1, 2, rnd(d, 331, 40 * n + 30)), 3),
           "income", "I_P", "none")

incXcl(d) ==
  << randInt(8, 18, rnd(d, 346, 0)), randInt(6, 16, rnd(d, 347, 0)),
     randInt(8, 20, rnd(d, 348, 0)) >>

residualIncomeSpecsOf(d, st) ==
  splitIncomeCards(d, 1, st.steelInc.w, st.steelInc.p)
  \o splitIncomeCards(d, 2, st.autoInc.w, st.autoInc.p)
  \o splitIncomeCards(d, 3, st.machInc.w, st.machInc.p)
  \o splitIncomeCards(d, 4, st.portInc.w, st.portInc.p)
  \o specs(SubSeq(shuffleAt(d, 345, 0, incXcl(d)), 1, randInt(1, 3, rnd(d, 349, 0))),
           "income", "I_XCL", "none")

\* the returned object: each ledger shuffled, and the meta record
returnResidual(d, st, prodCards, expCards, incCards) ==
  [productionCards |-> shuffleAt(d, 353, 0, prodCards),
   expenditureCards |-> shuffleAt(d, 354, 0, expCards),
   incomeCards |-> shuffleAt(d, 355, 0, incCards),
   meta |-> [inventoryCardIds |-> inventoryIdsOf(expCards),
             gdpProd |-> st.GDP_prod_final,
             gdpExp |-> st.GDP_exp_final,
             gdpInc |-> st.GDP_inc,
             scale |-> d.scale]]

numberResidual(d, st, ps, es, is) ==
  returnResidual(d, st, withIds(ps, "p", 0), withIds(es, "e", Len(ps)),
                 withIds(is, "i", Len(ps) + Len(es)))

cardsResidual(d, st) ==
  numberResidual(d, st, residualProductionSpecsOf(d, st),
                 residualExpenditureSpecsOf(d, st), residualIncomeSpecsOf(d, st))

generateScenarioResidual(d) == cardsResidual(d, residualStats(d))

----------------------------------------------------------------------------
(* The page (4-firm version).  The document holds one element per card     *)
(* that is attached: doc[id] records the element's parent (the pool or a   *)
(* bin), its data-amount and data-ledger, and its feedback class.          *)

BIN_IDS ==
  [production |-> {"P_S_OUT", "P_S_INT", "P_A_OUT", "P_A_INT",
                   "P_P_OUT", "P_P_INT", "P_M_OUT", "P_M_INT"},
   expenditure |-> {"E_C", "E_I", "E_G", "E_X", "E_M", "E_XCL"},
   income |-> {"I_W", "I_P", "I_XCL"}]

Ledgers == {"production", "expenditure", "income"}

allCards(sc) == sc.productionCards \o sc.expenditureCards \o sc.incomeCards

Range(seq) == {seq[i] : i \in 1..Len(seq)}

CardSet(sc) ==
  Range(sc.productionCards) \cup Range(sc.expenditureCards) \cup Range(sc.incomeCards)

\* makeCard: the element made for a card (not yet attached to the document)
makeCard(card) ==
  [parent |-> "pool", amount |-> card.amount, ledger |-> card.ledger, mark |-> ""]

RECURSIVE SumAmounts(_, _)
SumAmounts(d, S) ==
  IF S = {} THEN 0
  ELSE LET e == CHOOSE x \in S : TRUE
       IN d[e].amount + SumAmounts(d, S \ {e})

sumBin_ignoresBin(d, binId) == SumAmounts(d, DOMAIN d)

sumBin(d, binId) ==
  SumAmounts(d, {e \in DOMAIN d : d[e].parent = binId})

computeGDPProduction(d) ==
  LET steelVA == sumBin(d, "P_S_OUT") - sumBin(d, "P_S_INT")
      autoVA == sumBin(d, "P_A_OUT") - sumBin(d, "P_A_INT")
      portVA == sumBin(d, "P_P_OUT") - sumBin(d, "P_P_INT")
      machVA == sumBin(d, "P_M_OUT") - sumBin(d, "P_M_INT")
  IN steelVA + autoVA + portVA + machVA

computeGDPExpenditure_countsExcluded(d) ==
  sumBin(d, "E_C") + sumBin(d, "E_I") + sumBin(d, "E_G")
    + (sumBin(d, "E_X") - sumBin(d, "E_M")) + sumBin(d, "E_XCL")

computeGDPExpenditure(d) ==
  sumBin(d, "E_C") + sumBin(d, "E_I") + sumBin(d, "E_G")
    + (sumBin(d, "E_X") - sumBin(d, "E_M"))

computeGDPIncome(d) == sumBin(d, "I_W") + sumBin(d, "I_P")

Max3(a, b, c) == Max(a, Max(b, c))

\* the totals and the gap as updateTotals writes them to the page
updateTotals(d) ==
  LET gdpP == computeGDPProduction(d)
      gdpE == computeGDPExpenditure(d)
      gdpI == computeGDPIncome(d)
  IN [gdpProd |-> gdpP, gdpExp |-> gdpE, gdpInc |-> gdpI,
      gapVal |-> Max3(Abs(gdpP - gdpE), Abs(gdpP - gdpI), Abs(gdpE - gdpI))]

AllBins == BIN_IDS.production \cup BIN_IDS.expenditure \cup BIN_IDS.income

\* draggedId = null, and a text/plain payload that names no card
NoId == <<>>
UnknownId == <<"x", 0>>

\* the totals and the report before updateTotals / checkAnswers first ran
NoTotals == [none |-> TRUE]
NoReport == [none |-> TRUE]

\* the message setStatus last wrote: its kind, and the numbers it quotes
statusText(kind, correct, placed, gap) ==
  [kind |-> kind, correct |-> correct, placed |-> placed, gap |-> gap]

ledgerCards(sc, tab) ==
  IF tab = "production" THEN sc.productionCards
  ELSE IF tab = "expenditure" THEN sc.expenditureCards
  ELSE sc.incomeCards

\* els.pool.innerHTML = "": the elements of the pool leave the document
emptyPool(d) == [e \in {x \in DOMAIN d : d[x].parent # "pool"} |-> d[e]]

\* clearBins: the pool and every bin are emptied
clearBins(d) ==
  [e \in {x \in DOMAIN d : d[x].parent \notin ({"pool"} \cup AllBins)} |-> d[e]]

\* renderTabPool, first loop: every card of the ledger is appended to the
\* pool, its element taken from the document or else made anew
fillPool(cards, d) ==
  [e \in DOMAIN d \cup {cards[i].id : i \in 1..Len(cards)} |->
     IF \E i \in 1..Len(cards) : cards[i].id = e
     THEN [(IF e \in DOMAIN d THEN d[e]
            ELSE makeCard(cards[CHOOSE i \in 1..Len(cards) : cards[i].id = e]))
           EXCEPT !.parent = "pool"]
     ELSE d[e]]

\* renderTabPool, second loop: the placed cards of the active ledger go to
\* their bins
applyPlacements(p, d) ==
  [e \in DOMAIN d |->
     IF e \in DOMAIN p /\ p[e] \in AllBins THEN [d[e] EXCEPT !.parent = p[e]]
     ELSE d[e]]

renderTabPool(sc, tab, pl, d) ==
  applyPlacements(pl[tab], fillPool(ledgerCards(sc, tab), emptyPool(d)))

resetAllPlacements_keepsActive ==
  [l \in Ledgers |-> IF l = activeTab THEN placements[l] ELSE <<>>]

resetAllPlacements == [l \in Ledgers |-> <<>>]

clearFeedbackStyles(d) == [e \in DOMAIN d |-> [d[e] EXCEPT !.mark = ""]]

\* checkAnswers, the loop's guards: the card has an element and a bin
isPlaced(pl, d, c) == c.id \in DOMAIN d /\ c.id \in DOMAIN pl[c.ledger]

\* checkAnswers, the loop's effect on the elements: good or bad
checkMarks(cards, pl, d) ==
  [e \in DOMAIN d |->
     IF \E i \in 1..Len(cards) : cards[i].id = e /\ isPlaced(pl, d, cards[i])
     THEN [d[e] EXCEPT !.mark =
             IF \E i \in 1..Len(cards) :
                  cards[i].id = e /\ pl[cards[i].ledger][e] = cards[i].correctBin
             THEN "good" ELSE "bad"]
     ELSE d[e]]

placedCount_countsAttached(cards, pl, d) ==
  Cardinality({i \in 1..Len(cards) : cards[i].id \in DOMAIN d})

\* placed++ and correct++ over the loop
placedCount(cards, pl, d) ==
  Cardinality({i \in 1..Len(cards) : isPlaced(pl, d, cards[i])})

correctCount(cards, pl, d) ==
  Cardinality({i \in 1..Len(cards) :
                 /\ isPlaced(pl, d, cards[i])
                 /\ pl[cards[i].ledger][cards[i].id] = cards[i].correctBin})

inventoryCheck_some(sc, pl) ==
  IF Len(sc.meta.inventoryCardIds) = 0 THEN ""
  ELSE IF \E i \in 1..Len(sc.meta.inventoryCardIds) :
            /\ sc.meta.inventoryCardIds[i] \in DOMAIN pl.expenditure
            /\ pl.expenditure[sc.meta.inventoryCardIds[i]] = "E_I"
       THEN "ok" ELSE "not in I"

\* invIds.every(id => placements.expenditure[id] === "E_I"); no message when
\* the scenario names no inventory card
inventoryCheck(sc, pl) ==
  IF Len(sc.meta.inventoryCardIds) = 0 THEN ""
  ELSE IF \A i \in 1..Len(sc.meta.inventoryCardIds) :
            /\ sc.meta.inventoryCardIds[i] \in DOMAIN pl.expenditure
            /\ pl.expenditure[sc.meta.inventoryCardIds[i]] = "E_I"
       THEN "ok" ELSE "not in I"

checkStatus_wideTolerance(placed, correct, gap) ==
  IF placed = 0 THEN statusText("place", 0, 0, 0)
  ELSE IF gap < 10 THEN statusText("perfect", 0, 0, gap)
  ELSE statusText("checked", correct, placed, gap)

checkStatus_gapFirst(placed, correct, gap) ==
  IF gap * 1000000 < 1 THEN statusText("perfect", 0, 0, gap)
  ELSE IF placed = 0 THEN statusText("place", 0, 0, 0)
  ELSE statusText("checked", correct, placed, gap)

\* the closing status of checkAnswers; gap < 1e-6 is gap * 10^6 < 1
checkStatus(placed, correct, gap) ==
  IF placed = 0 THEN statusText("place", 0, 0, 0)
  ELSE IF gap * 1000000 < 1 THEN statusText("perfect", 0, 0, gap)
  ELSE statusText("checked", correct, placed, gap)

\* what one run of checkAnswers reports, d being the document it leaves
reportOf(placed, correct, totals, inventory) ==
  [correct |-> correct, placed |-> placed, totals |-> totals, inventory |-> inventory,
   status |-> checkStatus(placed, correct, totals.gapVal)]

checkReport(sc, pl, d) ==
  reportOf(placedCount(allCards(sc), pl, d), correctCount(allCards(sc), pl, d),
           updateTotals(d), inventoryCheck(sc, pl))

----------------------------------------------------------------------------
(* The page in use.  init() registers the handlers and calls               *)
(* setActiveTab("production") while scenario is still null: renderTabPool  *)
(* throws in ledgerCards, so the newScenario() call of init is never       *)
(* reached and the page starts without a scenario.  A handler that throws  *)
(* keeps the assignments it made before the throw.                         *)

MaxRounds == 2
MaxDrops == 2
MaxChecks == 2

\* the random numbers of the rounds that are played
RoundDraws ==
  { [GDP_TARGET |-> 180, nC |-> 35, nG |-> 20, nX |-> -20, nM |-> 25, nI |-> 25,
     seed |-> 2],
    [GDP_TARGET |-> 520, nC |-> -35, nG |-> -20, nX |-> 20, nM |-> -25, nI |-> -25,
     seed |-> 1] }

\* generateScenario() as newScenario calls it, tabulated over those draws
scenarioOf == [d \in RoundDraws |-> generateScenario(d)]

\* the cards that are dragged: a production card, an inventory card, a
\* distractor and a wage card
firstId(cards, bin, subtype) ==
  SelectSeq(cards, LAMBDA c : c.correctBin = bin /\ c.subtype = subtype)[1].id

DragIds(sc) ==
  { firstId(sc.productionCards, "P_S_OUT", "none"),
    firstId(sc.expenditureCards, "E_I", "inventory"),
    firstId(sc.expenditureCards, "E_XCL", "none"),
    firstId(sc.incomeCards, "I_W", "none") }

\* the bins on which cards are dropped
ZonesTried == {"P_S_OUT", "P_A_INT", "E_C", "E_I", "E_XCL", "I_W", "I_XCL"}

\* the handler that ran last; for a drop, the id it resolved and, when a
\* card moved, the parents it left and joined; for checkAnswers, how many
\* ran in a row
op(name) == [name |-> name, id |-> NoId, from |-> "", to |-> "", repeat |-> 0]

InitPage ==
  /\ activeTab = "production"
  /\ scenario = NoScenario
  /\ placements = [l \in Ledgers |-> <<>>]
  /\ draggedId = NoId
  /\ dragging = FALSE
  /\ doc = <<>>
  /\ els = [totals |-> NoTotals, status |-> statusText("", 0, 0, 0),
            inventoryFeedback |-> ""]
  /\ report = NoReport
  /\ lastOp = op("init")
  /\ drops = 0
  /\ rounds = 0

Init ==
  /\ InitPage
  /\ pArgs = [fn |-> "none"]
  /\ pOut = <<>>
  /\ gArgs = [gen |-> "none"]
  /\ gOut = NoScenario

NewScenario ==
  /\ ~dragging
  /\ rounds < MaxRounds
  /\ \E d \in RoundDraws : scenario' = scenarioOf[d]
  /\ placements' = resetAllPlacements
  /\ doc' = clearFeedbackStyles(
              renderTabPool(scenario', activeTab, placements', clearBins(doc)))
  /\ els' = [totals |-> updateTotals(doc'), status |-> statusText("new", 0, 0, 0),
             inventoryFeedback |-> ""]
  /\ lastOp' = op("newScenario")
  /\ rounds' = rounds + 1
  /\ report' = NoReport
  /\ UNCHANGED <<activeTab, draggedId, dragging, drops, partVars, genVars>>

ResetRound ==
  /\ ~dragging
  /\ placements' = resetAllPlacements
  /\ IF scenario = NoScenario
     THEN /\ doc' = emptyPool(doc)
          /\ UNCHANGED els
     ELSE /\ doc' = clearFeedbackStyles(
                      renderTabPool(scenario, activeTab, placements', doc))
          /\ els' = [totals |-> updateTotals(doc'),
                     status |-> statusText("reset", 0, 0, 0),
                     inventoryFeedback |-> ""]
  /\ lastOp' = op("resetRound")
  /\ report' = NoReport
  /\ UNCHANGED <<activeTab, scenario, draggedId, dragging, drops, rounds, partVars,
                 genVars>>

SetActiveTab_shufflesInPlace ==
  /\ ~dragging
  /\ \E tab \in Ledgers :
       /\ activeTab' = tab
       /\ IF scenario = NoScenario
          THEN /\ doc' = emptyPool(doc)
               /\ UNCHANGED <<els, scenario>>
          ELSE /\ doc' = renderTabPool(scenario, tab, placements, doc)
               /\ els' = [els EXCEPT !.status = statusText("active", 0, 0, 0)]
               /\ scenario' =
                    [scenario EXCEPT
                       !.productionCards =
                          IF tab = "production" THEN Tail(@) \o <<Head(@)>> ELSE @,
                       !.expenditureCards =
                          IF tab = "expenditure" THEN Tail(@) \o <<Head(@)>> ELSE @,
                       !.incomeCards =
                          IF tab = "income" THEN Tail(@) \o <<Head(@)>> ELSE @]
  /\ lastOp' = op("setActiveTab")
  /\ report' = NoReport
  /\ UNCHANGED <<placements, draggedId, dragging, drops, rounds, partVars, genVars>>

SetActiveTab ==
  /\ ~dragging
  /\ \E tab \in Ledgers :
       /\ activeTab' = tab
       /\ IF scenario = NoScenario
          THEN /\ doc' = emptyPool(doc)
               /\ UNCHANGED els
          ELSE /\ doc' = renderTabPool(scenario, tab, placements, doc)
               /\ els' = [els EXCEPT !.status = statusText("active", 0, 0, 0)]
  /\ lastOp' = op("setActiveTab")
  /\ report' = NoReport
  /\ UNCHANGED <<scenario, placements, draggedId, dragging, drops, rounds, partVars,
                 genVars>>

\* dragstart on a card the learner can see: in the pool or in a bin of the
\* open panel.  No click reaches the page while the drag is under way.
DragStart ==
  /\ ~dragging
  /\ drops < MaxDrops
  /\ scenario # NoScenario
  /\ \E id \in DragIds(scenario) \cap DOMAIN doc :
       /\ doc[id].parent \in {"pool"} \cup BIN_IDS[activeTab]
       /\ draggedId' = id
  /\ dragging' = TRUE
  /\ UNCHANGED <<activeTab, scenario, placements, doc, els, report, lastOp, drops,
                 rounds, partVars, genVars>>

Drop_anyLedger ==
  /\ drops < MaxDrops
  /\ \E zone \in BIN_IDS[activeTab] \cap ZonesTried,
        data \in (IF dragging THEN {draggedId} ELSE {NoId, UnknownId}) :
       LET id == IF data # NoId THEN data ELSE draggedId
       IN IF id = NoId \/ id \notin DOMAIN doc
          THEN /\ UNCHANGED <<placements, doc, els>>
               /\ lastOp' = [op("drop") EXCEPT !.id = id]
          ELSE /\ doc' = [doc EXCEPT ![id].parent = zone, ![id].mark = ""]
               /\ placements' = [placements EXCEPT ![activeTab] = (id :> zone) @@ @]
               /\ els' = [els EXCEPT !.totals = updateTotals(doc')]
               /\ lastOp' = [name |-> "drop", id |-> id, from |-> doc[id].parent,
                             to |-> zone, repeat |-> 0]
  /\ drops' = drops + 1
  /\ dragging' = FALSE
  /\ report' = NoReport
  /\ UNCHANGED <<activeTab, scenario, draggedId, rounds, partVars, genVars>>

\* drop on a bin of the open panel; data is the text/plain payload: the id
\* of the card when the drag started on one, else empty or some other text
Drop ==
  /\ drops < MaxDrops
  /\ \E zone \in BIN_IDS[activeTab] \cap ZonesTried,
        data \in (IF dragging THEN {draggedId} ELSE {NoId, UnknownId}) :
       LET id == IF data # NoId THEN data ELSE draggedId
       IN IF id = NoId \/ id \notin DOMAIN doc \/ doc[id].ledger # activeTab
          THEN /\ UNCHANGED <<placements, doc, els>>
               /\ lastOp' = [op("drop") EXCEPT !.id = id]
          ELSE /\ doc' = [doc EXCEPT ![id].parent = zone, ![id].mark = ""]
               /\ placements' = [placements EXCEPT ![activeTab] = (id :> zone) @@ @]
               /\ els' = [els EXCEPT !.totals = updateTotals(doc')]
               /\ lastOp' = [name |-> "drop", id |-> id, from |-> doc[id].parent,
                             to |-> zone, repeat |-> 0]
  /\ drops' = drops + 1
  /\ dragging' = FALSE
  /\ report' = NoReport
  /\ UNCHANGED <<activeTab, scenario, draggedId, rounds, partVars, genVars>>

CheckAnswers_forgetsWrong ==
  /\ ~dragging
  /\ scenario # NoScenario
  /\ doc' = checkMarks(allCards(scenario), placements, clearFeedbackStyles(doc))
  /\ report' = checkReport(scenario, placements, doc')
  /\ els' = [totals |-> report'.totals, status |-> report'.status,
             inventoryFeedback |-> report'.inventory]
  /\ placements' =
       [l \in Ledgers |->
          [e \in {x \in DOMAIN placements[l] : doc'[x].mark = "good"} |->
             placements[l][e]]]
  /\ lastOp' = [op("checkAnswers") EXCEPT !.repeat =
                  IF lastOp.name = "checkAnswers"
                  THEN Min(lastOp.repeat + 1, MaxChecks) ELSE 1]
  /\ UNCHANGED <<activeTab, scenario, draggedId, dragging, drops, rounds, partVars,
                 genVars>>

CheckAnswers ==
  /\ ~dragging
  /\ IF scenario = NoScenario
     THEN /\ doc' = clearFeedbackStyles(doc)
          /\ els' = [els EXCEPT !.inventoryFeedback = ""]
          /\ UNCHANGED report
     ELSE /\ doc' = checkMarks(allCards(scenario), placements, clearFeedbackStyles(doc))
          /\ report' = checkReport(scenario, placements, doc')
          /\ els' = [totals |-> report'.totals, status |-> report'.status,
                     inventoryFeedback |-> report'.inventory]
  /\ lastOp' = [op("checkAnswers") EXCEPT !.repeat =
                  IF lastOp.name = "checkAnswers"
                  THEN Min(lastOp.repeat + 1, MaxChecks) ELSE 1]
  /\ UNCHANGED <<activeTab, scenario, placements, draggedId, dragging, drops, rounds,
                 partVars, genVars>>

Next ==
  \/ NewScenario
  \/ ResetRound
  \/ SetActiveTab
  \/ DragStart
  \/ Drop
  \/ CheckAnswers

Spec == Init /\ [][Next]_vars

----------------------------------------------------------------------------
(* newScenario taken one statement at a time: lastOp names the statement   *)
(* that ran last until the handler returns.  No other handler runs while   *)
(* it is under way.                                                        *)

NewScenarioPositions == {"newScenario:268", "newScenario:269"}

AtRest == lastOp.name \notin NewScenarioPositions

\* scenario = generateScenario();
NewScenarioAssign ==
  /\ AtRest
  /\ ~dragging
  /\ rounds < MaxRounds
  /\ \E d \in RoundDraws : scenario' = scenarioOf[d]
  /\ lastOp' = op("newScenario:268")
  /\ rounds' = rounds + 1
  /\ report' = NoReport
  /\ UNCHANGED <<activeTab, placements, doc, els, draggedId, dragging, drops,
                 partVars, genVars>>

\* resetAllPlacements();
NewScenarioResetPlacements ==
  /\ lastOp.name = "newScenario:268"
  /\ placements' = resetAllPlacements
  /\ lastOp' = op("newScenario:269")
  /\ UNCHANGED <<activeTab, scenario, doc, els, report, draggedId, dragging, drops,
                 rounds, partVars, genVars>>

\* clearBins(); the makeCard loop; renderTabPool(); clearFeedbackStyles();
\* updateTotals(); setStatus(...)
NewScenarioRender ==
  /\ lastOp.name = "newScenario:269"
  /\ doc' = clearFeedbackStyles(
              renderTabPool(scenario, activeTab, placements, clearBins(doc)))
  /\ els' = [totals |-> updateTotals(doc'), status |-> statusText("new", 0, 0, 0),
             inventoryFeedback |-> ""]
  /\ lastOp' = op("newScenario")
  /\ UNCHANGED <<activeTab, scenario, placements, report, draggedId, dragging,
                 drops, rounds, partVars, genVars>>

NextSteps ==
  \/ NewScenarioAssign
  \/ NewScenarioResetPlacements
  \/ NewScenarioRender
  \/ AtRest /\ ResetRound
  \/ AtRest /\ SetActiveTab
  \/ AtRest /\ DragStart
  \/ AtRest /\ Drop
  \/ AtRest /\ CheckAnswers

SpecSteps == Init /\ [][NextSteps]_vars

----------------------------------------------------------------------------
(* The 3-firm page (part_001), played with the fixed 3-firm generator.     *)
(* Its setActiveTab and resetRound are those of the 4-firm page statement  *)
(* for statement, and its init() throws at the same place.  initDnD makes  *)
(* the pool a drop zone as well; the pool is found by its id and is no     *)
(* [data-bin] element, so its dataset.bin is undefined.                    *)

BIN_IDS3 ==
  [production |-> {"P_S_OUT", "P_S_INT", "P_A_OUT", "P_A_INT", "P_P_OUT", "P_P_INT"},
   expenditure |-> {"E_C", "E_I", "E_G", "E_X", "E_M", "E_XCL"},
   income |-> {"I_W", "I_P", "I_XCL"}]

\* zone.dataset.bin of the pool
NoBin == "undefined"

computeGDPProduction3(d) ==
  LET steelVA == sumBin(d, "P_S_OUT") - sumBin(d, "P_S_INT")
      autoVA == sumBin(d, "P_A_OUT") - sumBin(d, "P_A_INT")
      portVA == sumBin(d, "P_P_OUT") - sumBin(d, "P_P_INT")
  IN steelVA + autoVA + portVA

updateTotals3(d) ==
  LET gdpP == computeGDPProduction3(d)
      gdpE == computeGDPExpenditure(d)
      gdpI == computeGDPIncome(d)
  IN [gdpProd |-> gdpP, gdpExp |-> gdpE, gdpInc |-> gdpI,
      gapVal |-> Max3(Abs(gdpP - gdpE), Abs(gdpP - gdpI), Abs(gdpE - gdpI))]

\* checkAnswers, the loop's guards: if (!el) continue; if (!placedBin) continue
isPlaced3(pl, d, c) ==
  /\ c.id \in DOMAIN d
  /\ c.id \in DOMAIN pl[c.ledger]
  /\ pl[c.ledger][c.id] # NoBin

checkMarks3(cards, pl, d) ==
  [e \in DOMAIN d |->
     IF \E i \in 1..Len(cards) : cards[i].id = e /\ isPlaced3(pl, d, cards[i])
     THEN [d[e] EXCEPT !.mark =
             IF \E i \in 1..Len(cards) :
                  cards[i].id = e /\ pl[cards[i].ledger][e] = cards[i].correctBin
             THEN "good" ELSE "bad"]
     ELSE d[e]]

totalPlaced3(cards, pl, d) ==
  Cardinality({i \in 1..Len(cards) : isPlaced3(pl, d, cards[i])})

correct3(cards, pl, d) ==
  Cardinality({i \in 1..Len(cards) :
                 /\ isPlaced3(pl, d, cards[i])
                 /\ pl[cards[i].ledger][cards[i].id] = cards[i].correctBin})

\* the expenditure card whose text names inventories: e3 of the fixed
\* generator
invCard3 == <<"e", 3>>

inventoryCheck3(pl) ==
  IF invCard3 \notin DOMAIN pl.expenditure \/ pl.expenditure[invCard3] = NoBin
  THEN "place it"
  ELSE IF pl.expenditure[invCard3] = "E_I" THEN "ok"
  ELSE "not in I"

\* the closing status; gap < 0.5 is 2 * gap < 1
checkStatus3(placed, correct, gap) ==
  IF placed = 0 THEN statusText("place", 0, 0, 0)
  ELSE IF 2 * gap < 1 THEN statusText("perfect", 0, 0, gap)
  ELSE statusText("checked", correct, placed, gap)

checkReport3(sc, pl, d) ==
  [correct |-> correct3(allCards(sc), pl, d),
   placed |-> totalPlaced3(allCards(sc), pl, d),
   totals |-> updateTotals3(d), inventory |-> inventoryCheck3(pl),
   status |-> checkStatus3(totalPlaced3(allCards(sc), pl, d),
                           correct3(allCards(sc), pl, d), updateTotals3(d).gapVal)]

\* the noise terms of the rounds that are played
FixedRoundDraws ==
  { [noiseC |-> 0, noiseG |-> 0, noiseX |-> 0, noiseMcons |-> 0],
    [noiseC |-> 10, noiseG |-> -5, noiseX |-> 5, noiseMcons |-> -6] }

fixedScenarioOf == [d \in FixedRoundDraws |-> generateScenarioFixed(d)]

\* the cards that are dragged: steel output, the inventory card, a
\* distractor and a wage card; and the zones they are dropped on
DragIds3 == {<<"p", 1>>, <<"e", 3>>, <<"e", 7>>, <<"i", 1>>}

ZonesTried3 == {"pool", "P_S_OUT", "E_I", "E_XCL", "I_W"}

NewScenario3 ==
  /\ ~dragging
  /\ rounds < MaxRounds
  /\ \E d \in FixedRoundDraws : scenario' = fixedScenarioOf[d]
  /\ placements' = resetAllPlacements
  /\ doc' = clearFeedbackStyles(
              renderTabPool(scenario', activeTab, placements', clearBins(doc)))
  /\ els' = [totals |-> updateTotals3(doc'), status |-> statusText("new", 0, 0, 0),
             inventoryFeedback |-> ""]
  /\ lastOp' = op("newScenario")
  /\ rounds' = rounds + 1
  /\ report' = NoReport
  /\ UNCHANGED <<activeTab, draggedId, dragging, drops, partVars, genVars>>

DragStart3 ==
  /\ ~dragging
  /\ drops < MaxDrops
  /\ scenario # NoScenario
  /\ \E id \in DragIds3 \cap DOMAIN doc :
       /\ doc[id].parent \in {"pool"} \cup BIN_IDS3[activeTab]
       /\ draggedId' = id
  /\ dragging' = TRUE
  /\ UNCHANGED <<activeTab, scenario, placements, doc, els, report, lastOp, drops,
                 rounds, partVars, genVars>>

Drop3_anyLedger ==
  /\ drops < MaxDrops
  /\ \E zone \in (BIN_IDS3[activeTab] \cup {"pool"}) \cap ZonesTried3,
        data \in (IF dragging THEN {draggedId} ELSE {NoId, UnknownId}) :
       LET id == IF data # NoId THEN data ELSE draggedId
       IN IF id = NoId \/ id \notin DOMAIN doc
          THEN /\ UNCHANGED <<placements, doc, els>>
               /\ lastOp' = [op("drop") EXCEPT !.id = id]
          ELSE /\ doc' = [doc EXCEPT ![id].parent = zone, ![id].mark = ""]
               /\ placements' =
                    [placements EXCEPT ![activeTab] =
                       (id :> (IF zone = "pool" THEN NoBin ELSE zone)) @@ @]
               /\ els' = [els EXCEPT !.totals = updateTotals3(doc')]
               /\ lastOp' = [name |-> "drop", id |-> id, from |-> doc[id].parent,
                             to |-> zone, repeat |-> 0]
  /\ drops' = drops + 1
  /\ dragging' = FALSE
  /\ report' = NoReport
  /\ UNCHANGED <<activeTab, scenario, draggedId, rounds, partVars, genVars>>

\* drop on a bin of the open panel or on the pool
Drop3 ==
  /\ drops < MaxDrops
  /\ \E zone \in (BIN_IDS3[activeTab] \cup {"pool"}) \cap ZonesTried3,
        data \in (IF dragging THEN {draggedId} ELSE {NoId, UnknownId}) :
       LET id == IF data # NoId THEN data ELSE draggedId
       IN IF id = NoId \/ id \notin DOMAIN doc \/ doc[id].ledger # activeTab
          THEN /\ UNCHANGED <<placements, doc, els>>
               /\ lastOp' = [op("drop") EXCEPT !.id = id]
          ELSE /\ doc' = [doc EXCEPT ![id].parent = zone, ![id].mark = ""]
               /\ placements' =
                    [placements EXCEPT ![activeTab] =
                       (id :> (IF zone = "pool" THEN NoBin ELSE zone)) @@ @]
               /\ els' = [els EXCEPT !.totals = updateTotals3(doc')]
               /\ lastOp' = [name |-> "drop", id |-> id, from |-> doc[id].parent,
                             to |-> zone, repeat |-> 0]
  /\ drops' = drops + 1
  /\ dragging' = FALSE
  /\ report' = NoReport
  /\ UNCHANGED <<activeTab, scenario, draggedId, rounds, partVars, genVars>>

CheckAnswers3 ==
  /\ ~dragging
  /\ IF scenario = NoScenario
     THEN /\ doc' = clearFeedbackStyles(doc)
          /\ els' = [els EXCEPT !.inventoryFeedback = ""]
          /\ UNCHANGED report
     ELSE /\ doc' = checkMarks3(allCards(scenario), placements,
                                clearFeedbackStyles(doc))
          /\ report' = checkReport3(scenario, placements, doc')
          /\ els' = [totals |-> report'.totals, status |-> report'.status,
                     inventoryFeedback |-> report'.inventory]
  /\ lastOp' = [op("checkAnswers") EXCEPT !.repeat =
                  IF lastOp.name = "checkAnswers"
                  THEN Min(lastOp.repeat + 1, MaxChecks) ELSE 1]
  /\ UNCHANGED <<activeTab, scenario, placements, draggedId, dragging, drops, rounds,
                 partVars, genVars>>

Next3 ==
  \/ NewScenario3
  \/ ResetRound
  \/ SetActiveTab
  \/ DragStart3
  \/ Drop3
  \/ CheckAnswers3

Spec3 == Init /\ [][Next3]_vars


----------------------------------------------------------------------------
(* partition called on its own: the arguments are drawn at the start, the  *)
(* call draws its random numbers and returns.                              *)

MaxAmount == 6
MaxK == 3
MaxMinPart == 3

PartitionArgs ==
  [fn : {"data", "residual"}, amount : (-MaxAmount)..MaxAmount, k : 1..MaxK,
   minPart : 0..MaxMinPart]
  \cup [fn : {"data", "residual"}, amount : {100}, k : {3}, minPart : {5}]

\* the draws a call can make: none on the early-return paths
LoopDraws(total, k, minPart) ==
  IF k >= 2 /\ total - k * minPart >= 0
  THEN TakeDraws(total - k * minPart, k - 1) ELSE {<<>>}

InitPartition ==
  /\ pArgs \in PartitionArgs
  /\ pOut = <<>>
  /\ gArgs = [gen |-> "none"]
  /\ gOut = NoScenario
  /\ InitPage

CallPartition ==
  /\ pOut = <<>>
  /\ pArgs.fn = "data"
  /\ \E takes \in LoopDraws(Abs(pArgs.amount), pArgs.k, pArgs.minPart),
        js \in ShuffleDraws(pArgs.k) :
       pOut' = partition(pArgs.amount, pArgs.k, pArgs.minPart, takes, js)
  /\ UNCHANGED <<pArgs, genVars, pageVars>>

CallPartitionResidual ==
  /\ pOut = <<>>
  /\ pArgs.fn = "residual"
  /\ \E takes \in LoopDraws(pArgs.amount, pArgs.k, pArgs.minPart),
        js \in ShuffleDraws(pArgs.k) :
       pOut' = partitionResidual(pArgs.amount, pArgs.k, pArgs.minPart, takes, js)
  /\ UNCHANGED <<pArgs, genVars, pageVars>>

NextPartition == CallPartition \/ CallPartitionResidual

SpecPartition == InitPartition /\ [][NextPartition]_vars

----------------------------------------------------------------------------
\* C4: partition returns integers whose sum is exactly the total, for every
\* total (positive, zero, negative), k >= 1 and minPart >= 0, on the normal,
\* zero and infeasible-minimum paths, in data.js and in the residual draft.
C4_PartitionSumsToTotal ==
  pOut # <<>> => SumSeq(pOut) = pArgs.amount

\* a negative total split on the normal path has been returned
C4_Witness ==
  /\ pOut # <<>>
  /\ pArgs.fn = "data" /\ pArgs.amount < 0 /\ pArgs.k = 3
  /\ pArgs.k * pArgs.minPart < Abs(pArgs.amount)
  /\ \A i \in 1..3 : pOut[i] < 0

\* C5: with total >= 0, k >= 1, minPart >= 0 and k * minPart <= total the
\* data.js partition returns exactly k integers, each >= minPart;
\* partition(100, 3, 5) returns 3 integers >= 5 summing to 100.
C5_FeasibleRespectsMin ==
  (/\ pOut # <<>> /\ pArgs.fn = "data"
   /\ pArgs.amount >= 0 /\ pArgs.k * pArgs.minPart <= pArgs.amount)
  => /\ Len(pOut) = pArgs.k
     /\ \A i \in 1..Len(pOut) : pOut[i] >= pArgs.minPart
     /\ (pArgs.amount = 100 => SumSeq(pOut) = 100)

\* partition(100, 3, 5) has returned a split with one part at the minimum
C5_Witness ==
  /\ pArgs = [fn |-> "data", amount |-> 100, k |-> 3, minPart |-> 5]
  /\ pOut = <<5, 90, 5>>

\* the infeasible minimum: at least two parts whose minimum exceeds |total|
Infeasible == pArgs.k >= 2 /\ pArgs.k * pArgs.minPart > Abs(pArgs.amount)

\* C12 as stated: when k >= 2 and k * minPart > |total| partition returns k
\* parts, minPart in each of the first k-1 and the remainder in the last.
C12_InfeasibleKeepsMinimum ==
  (pOut # <<>> /\ Infeasible) =>
    /\ Len(pOut) = pArgs.k
    /\ \A i \in 1..(pArgs.k - 1) : Abs(pOut[i]) = pArgs.minPart
    /\ Abs(pOut[pArgs.k]) = Abs(Abs(pArgs.amount) - (pArgs.k - 1) * pArgs.minPart)

\* C12 as amended: when k >= 2 and k * minPart > |total| partition returns k
\* parts, 0 in each of the first k-1 and the whole total in the last.
C12_InfeasiblePutsAllInLast ==
  (pOut # <<>> /\ Infeasible) =>
    /\ Len(pOut) = pArgs.k
    /\ \A i \in 1..(pArgs.k - 1) : pOut[i] = 0
    /\ pOut[pArgs.k] = pArgs.amount

\* partition(-5, 3, 3) has returned its fallback
C12_Witness ==
  /\ pArgs = [fn |-> "data", amount |-> -5, k |-> 3, minPart |-> 3]
  /\ pOut = <<0, 0, -5>>

\* C13: for a negative total the data.js partition returns no positive
\* element, and when k * minPart <= |total| every element has magnitude
\* >= minPart.
C13_NegativeTotalKeepsSign ==
  (pOut # <<>> /\ pArgs.fn = "data" /\ pArgs.amount < 0) =>
    /\ \A i \in 1..Len(pOut) : pOut[i] <= 0
    /\ pArgs.k * pArgs.minPart <= Abs(pArgs.amount)
         => \A i \in 1..Len(pOut) : Abs(pOut[i]) >= pArgs.minPart

\* partition(-6, 3, 1) has returned -1, -4, -1
C13_Witness ==
  /\ pArgs = [fn |-> "data", amount |-> -6, k |-> 3, minPart |-> 1]
  /\ pOut = <<-1, -4, -1>>

----------------------------------------------------------------------------
(* generateScenario called on its own: the draws are fixed at the start,   *)
(* the call returns the scenario.                                          *)

Targets == {180, 181, 350, 519, 520}

MaxSeed == 2

GeneratorDraws ==
  [GDP_TARGET : Targets, nC : {-35, 0, 35}, nG : {-20, 20}, nX : {-20, 20},
   nM : {-25, 25}, nI : {-25, 25}, seed : 0..MaxSeed]

FixedDraws ==
  [noiseC : {-10, 0, 10}, noiseG : {-5, 0, 5}, noiseX : {-5, 0, 5},
   noiseMcons : {-6, -1, 0, 1, 6}]

ResidualDraws ==
  [scale : {160, 250, 360}, nC : {-25, 25}, nG : {-15, 15}, nX : {-12, 12},
   nM : {-12, 12}, nI : {-20, 20}, nInv : {-18, 0, 18}, sC : {-10, 10},
   sG : {0}, sX : {0}, steelExports : {0, 20}, seed : 0..MaxSeed]

InitGenerate ==
  /\ gArgs \in [gen : {"data"}, d : GeneratorDraws]
              \cup [gen : {"fixed"}, d : FixedDraws]
              \cup [gen : {"residual"}, d : ResidualDraws]
  /\ gOut = NoScenario
  /\ pArgs = [fn |-> "none"]
  /\ pOut = <<>>
  /\ InitPage

\* generateScenario() of data.js, tabulated over the draws one by one
dataScenario == [d \in {x : x \in GeneratorDraws} |-> generateScenario(d)]

CallGenerateScenario ==
  /\ gOut = NoScenario
  /\ gArgs.gen = "data"
  /\ gOut' = dataScenario[gArgs.d]
  /\ UNCHANGED <<gArgs, partVars, pageVars>>

CallGenerateScenarioFixed ==
  /\ gOut = NoScenario
  /\ gArgs.gen = "fixed"
  /\ gOut' = generateScenarioFixed(gArgs.d)
  /\ UNCHANGED <<gArgs, partVars, pageVars>>

CallGenerateScenarioResidual ==
  /\ gOut = NoScenario
  /\ gArgs.gen = "residual"
  /\ gOut' = generateScenarioResidual(gArgs.d)
  /\ UNCHANGED <<gArgs, partVars, pageVars>>

NextGenerate ==
  \/ CallGenerateScenario
  \/ CallGenerateScenarioFixed
  \/ CallGenerateScenarioResidual

SpecGenerate == InitGenerate /\ [][NextGenerate]_vars

\* a call that has started runs on: no other code runs until it returns
SpecGenerateFair == SpecGenerate /\ WF_vars(CallGenerateScenario)

\* the document once every card of the scenario sits in its correctBin
AllCorrectDoc(sc) ==
  [id \in {c.id : c \in CardSet(sc)} |->
     LET card == CHOOSE c \in CardSet(sc) : c.id = id
     IN [makeCard(card) EXCEPT !.parent = card.correctBin]]

\* C1: for every scenario of data.js, with every card of the three ledgers in
\* its correctBin the production, expenditure and income totals all equal
\* meta.gdpTarget, so the gap is exactly 0.
C1_AllCorrectReconciles ==
  (gOut # NoScenario /\ gArgs.gen = "data") =>
    LET t == updateTotals(AllCorrectDoc(gOut))
    IN /\ t.gdpProd = gOut.meta.gdpTarget
       /\ t.gdpExp = gOut.meta.gdpTarget
       /\ t.gdpInc = gOut.meta.gdpTarget
       /\ t.gapVal = 0

\* a scenario with negative inventory investment has been generated
C1_Witness ==
  /\ gOut # NoScenario /\ gArgs.gen = "data"
  /\ gOut.meta.components.I_inv < 0
  /\ Len(gOut.meta.inventoryCardIds) = 2

\* C3: for every draw of the four noise terms of the fixed 3-firm draft the
\* returned gdpTarget equals the expenditure total and the income total of
\* the cards in their correctBin, so the gap is 0.
C3_FixedReconciles ==
  (gOut # NoScenario /\ gArgs.gen = "fixed") =>
    LET t == updateTotals(AllCorrectDoc(gOut))
    IN /\ t.gdpProd = gOut.gdpTarget
       /\ t.gdpExp = gOut.gdpTarget
       /\ t.gdpInc = gOut.gdpTarget
       /\ t.gapVal = 0

\* C2: for every scenario of the 4-firm residual draft, after inventory
\* investment is set to the residual and propagated into AutoCo's output,
\* meta.gdpProd = meta.gdpExp = meta.gdpInc, and the cards in their
\* correctBin give a gap of 0.
C2_ResidualReconciles ==
  (gOut # NoScenario /\ gArgs.gen = "residual") =>
    /\ gOut.meta.gdpProd = gOut.meta.gdpExp
    /\ gOut.meta.gdpExp = gOut.meta.gdpInc
    /\ updateTotals(AllCorrectDoc(gOut)).gapVal = 0

----------------------------------------------------------------------------
(* Claims about the page                                                   *)

EmptyPlacement == [l \in Ledgers |-> <<>>]

ZeroTotals == [gdpProd |-> 0, gdpExp |-> 0, gdpInc |-> 0, gapVal |-> 0]

\* the cards whose correctBin is an exclusion bin
Distractors(sc) == {c \in CardSet(sc) : c.correctBin \in {"E_XCL", "I_XCL"}}

\* the document without the element of one card
Without(d, id) == [e \in DOMAIN d \ {id} |-> d[e]]

Totals3(d) ==
  <<computeGDPProduction(d), computeGDPExpenditure(d), computeGDPIncome(d)>>

\* the sum of the amounts of the cards whose placement entry is bin
RECURSIVE PlacedFrom(_, _, _, _)
PlacedFrom(cards, pl, bin, i) ==
  IF i > Len(cards) THEN 0
  ELSE (IF /\ cards[i].id \in DOMAIN pl[cards[i].ledger]
           /\ pl[cards[i].ledger][cards[i].id] = bin
        THEN cards[i].amount ELSE 0)
       + PlacedFrom(cards, pl, bin, i + 1)

PlacedSum(sc, pl, bin) == PlacedFrom(allCards(sc), pl, bin, 1)

\* C6 as stated: a distractor card never changes any of the three totals,
\* whichever bin it lies in: the totals are those of the page without it.
C6_DistractorsNeverCount ==
  scenario # NoScenario =>
    \A c \in Distractors(scenario) :
      c.id \in DOMAIN doc => Totals3(doc) = Totals3(Without(doc, c.id))

\* C6 as amended: a distractor card changes none of the three totals while
\* it lies in the pool or in an exclusion bin (E_XCL, I_XCL): the totals are
\* then those of the page without it.
C6_ExcludedDistractorsNeverCount ==
  scenario # NoScenario =>
    \A c \in Distractors(scenario) :
      (c.id \in DOMAIN doc /\ doc[c.id].parent \in {"pool", "E_XCL", "I_XCL"})
      => Totals3(doc) = Totals3(Without(doc, c.id))

\* a distractor has just been dropped on E_XCL while another card counts
C6_Witness ==
  /\ scenario # NoScenario
  /\ lastOp.name = "drop"
  /\ \E c \in Distractors(scenario) :
       /\ lastOp.id = c.id
       /\ doc[c.id].parent = "E_XCL"
  /\ computeGDPExpenditure(doc) # 0

\* C7: in every reachable state the sum of each bin, as the totals read it,
\* is the sum of the amounts of the scenario's cards whose placement entry
\* is that bin; right after a reset the three totals and the gap are 0.
C7_SumsFollowPlacements ==
  scenario # NoScenario =>
    /\ \A bin \in AllBins : sumBin(doc, bin) = PlacedSum(scenario, placements, bin)
    /\ lastOp.name = "resetRound" => els.totals = ZeroTotals

\* C8: right after newScenario and right after resetRound the placement map
\* of every ledger is empty, and in every reachable state every id with a
\* placement entry is the id of a card of the current scenario in that
\* ledger.
C8_NoStalePlacement ==
  /\ lastOp.name \in {"newScenario", "resetRound"} => placements = EmptyPlacement
  /\ \A l \in Ledgers : \A id \in DOMAIN placements[l] :
       /\ scenario # NoScenario
       /\ \E i \in 1..Len(ledgerCards(scenario, l)) :
            ledgerCards(scenario, l)[i].id = id

\* a second round has just been loaded after a card had been dragged and
\* dropped in the first
C8_Witness ==
  /\ lastOp.name = "newScenario"
  /\ rounds = 2
  /\ drops > 0
  /\ draggedId # NoId
  /\ placements = EmptyPlacement

\* C9: a checkAnswers run that follows a checkAnswers run with no other
\* handler in between reports the same correct and placed counts, totals,
\* gap, inventory result and status, and leaves the same page.
C9_CheckIdempotent ==
  [][(/\ scenario # NoScenario
      /\ lastOp.name = "checkAnswers"
      /\ lastOp'.name = "checkAnswers")
     => (report' = report /\ els' = els /\ doc' = doc)]_vars

\* checkAnswers has run twice in a row with one card right and one wrong
C9_Witness ==
  /\ lastOp.name = "checkAnswers"
  /\ lastOp.repeat = 2
  /\ report # NoReport
  /\ report.placed = 2
  /\ report.correct = 1

\* C10: a drop that moves a placed card of amount a from bin A to another
\* bin B lowers A's sum by a, raises B's sum by a, leaves every other bin's
\* sum as it was and changes that card's placement entry only.
C10_MoveChangesTwoBins ==
  [][(/\ lastOp'.name = "drop"
      /\ drops' = drops + 1
      /\ lastOp'.id \in DOMAIN placements[activeTab]
      /\ placements[activeTab][lastOp'.id] # lastOp'.to)
     => LET id == lastOp'.id
            A == placements[activeTab][id]
            B == lastOp'.to
            a == doc[id].amount
        IN /\ sumBin(doc', A) = sumBin(doc, A) - a
           /\ sumBin(doc', B) = sumBin(doc, B) + a
           /\ \A bin \in AllBins \ {A, B} : sumBin(doc', bin) = sumBin(doc, bin)
           /\ placements' = [placements EXCEPT ![activeTab][id] = B]]_vars

\* a card that lay in one bin has just been dropped on another
C10_Witness ==
  /\ lastOp.name = "drop"
  /\ lastOp.from \in AllBins
  /\ lastOp.to \in AllBins \ {lastOp.from}
  /\ doc[lastOp.id].parent = lastOp.to
  /\ placements[activeTab][lastOp.id] = lastOp.to

\* C11: a drop whose id names no card element, or a card whose ledger is not
\* the active one, changes nothing: the placement map, the bin of every
\* element and the three totals stay as they were.
C11_ForeignDropIsNoOp ==
  [][(/\ lastOp'.name = "drop"
      /\ drops' = drops + 1
      /\ \/ lastOp'.id \notin DOMAIN doc
         \/ doc[lastOp'.id].ledger # activeTab)
     => /\ placements' = placements
        /\ doc' = doc
        /\ Totals3(doc') = Totals3(doc)
        /\ els' = els]_vars

\* a drop has just resolved to a card of another ledger that lies in a bin,
\* and that card has stayed there
C11_Witness ==
  /\ lastOp.name = "drop"
  /\ lastOp.id \in DOMAIN doc
  /\ doc[lastOp.id].ledger # activeTab
  /\ doc[lastOp.id].parent \in BIN_IDS[doc[lastOp.id].ledger]
  /\ lastOp.id \notin DOMAIN placements[activeTab]

\* C14: the status checkAnswers reports is exactly one of three: nothing to
\* check when no card is placed; else fully reconciled when the gap is below
\* the tolerance (amounts are whole numbers, so when the gap is 0); else
\* the correct/placed counts with the gap.
C14_StatusPolicy ==
  report # NoReport =>
    /\ report.status.kind \in {"place", "perfect", "checked"}
    /\ report.status.kind = "place" <=> report.placed = 0
    /\ report.status.kind = "perfect"
         <=> (report.placed > 0 /\ report.totals.gapVal = 0)
    /\ report.status.kind = "checked" =>
         /\ report.totals.gapVal > 0
         /\ report.status.correct = report.correct
         /\ report.status.placed = report.placed
         /\ report.status.gap = report.totals.gapVal
    /\ els.status = report.status

\* checkAnswers has reported full reconciliation with a card placed
C14_Witness ==
  /\ report # NoReport
  /\ lastOp.name = "checkAnswers"
  /\ report.placed > 0
  /\ els.status.kind = "perfect"

\* the cards of the scenario that have a placement entry, by position
EntryIndices(sc, pl) ==
  {i \in 1..Len(allCards(sc)) :
     allCards(sc)[i].id \in DOMAIN pl[allCards(sc)[i].ledger]}

\* and those among them whose entry is their correctBin
RightIndices(sc, pl) ==
  {i \in EntryIndices(sc, pl) :
     pl[allCards(sc)[i].ledger][allCards(sc)[i].id] = allCards(sc)[i].correctBin}

WithoutEntry(pl, id) ==
  [pl EXCEPT !.expenditure = [e \in DOMAIN pl.expenditure \ {id} |-> pl.expenditure[e]]]

\* C16: the inventory check of checkAnswers passes if and only if every id of
\* meta.inventoryCardIds has the entry E_I in the expenditure ledger, and
\* taking away the entry of any other card leaves its result the same.
C16_InventoryCheck ==
  report # NoReport =>
    /\ report.inventory \in {"ok", "not in I"}
    /\ report.inventory = "ok"
         <=> \A id \in Range(scenario.meta.inventoryCardIds) :
               /\ id \in DOMAIN placements.expenditure
               /\ placements.expenditure[id] = "E_I"
    /\ \A id \in DOMAIN placements.expenditure \ Range(scenario.meta.inventoryCardIds) :
         inventoryCheck(scenario, WithoutEntry(placements, id)) = report.inventory
    /\ els.inventoryFeedback = report.inventory

\* the inventory check has passed while another card lies in a wrong bin
C16_Witness ==
  /\ report # NoReport
  /\ lastOp.name = "checkAnswers"
  /\ report.inventory = "ok"
  /\ report.placed = 2
  /\ report.correct = 1

----------------------------------------------------------------------------
(* Claims about the scenario data.js returns                               *)

\* what generateScenario returns: three non-empty card lists and the meta
\* record of the round
IsScenario(sc, d) ==
  /\ sc # NoScenario
  /\ Len(sc.productionCards) > 0
  /\ Len(sc.expenditureCards) > 0
  /\ Len(sc.incomeCards) > 0
  /\ Len(sc.meta.inventoryCardIds) > 0
  /\ sc.meta.gdpTarget = d.GDP_TARGET

\* C17: whatever the random draws, a call of generateScenario of data.js
\* comes to an end and returns a scenario.
C17_GenerateScenarioReturns ==
  (gArgs.gen = "data") ~> (gArgs.gen = "data" /\ IsScenario(gOut, gArgs.d))

\* the call in which every Math.random() gave its largest value, with the
\* largest target, has returned
C17_Witness ==
  /\ gArgs.gen = "data"
  /\ gArgs.d.seed = 1
  /\ gArgs.d.GDP_TARGET = 520
  /\ IsScenario(gOut, gArgs.d)

\* C18: in data.js, for every firm and every draw, the wage W and the profit
\* P add up to the firm's value added, 0 <= W <= VA and P >= 0 (value added
\* is at least 10), and no income card has a negative amount.
C18_WagesAndProfits ==
  (gArgs.gen = "data" /\ gOut # NoScenario) =>
    /\ \A idx \in 1..4 :
         /\ firmStats(gArgs.d)[idx].VA >= 10
         /\ incomeStats(gArgs.d)[idx].W + incomeStats(gArgs.d)[idx].P
              = firmStats(gArgs.d)[idx].VA
         /\ 0 <= incomeStats(gArgs.d)[idx].W
         /\ incomeStats(gArgs.d)[idx].W <= firmStats(gArgs.d)[idx].VA
         /\ incomeStats(gArgs.d)[idx].P >= 0
    /\ \A i \in 1..Len(gOut.incomeCards) : gOut.incomeCards[i].amount >= 0

\* a scenario has been returned in which a firm with the least value added,
\* 10, drew the largest wage share: W = 8, P = 2
C18_Witness ==
  /\ gArgs.gen = "data" /\ gOut # NoScenario
  /\ gArgs.d.seed = 1
  /\ \E idx \in 1..4 :
       /\ firmStats(gArgs.d)[idx].VA = 10
       /\ incomeStats(gArgs.d)[idx].W = 8
       /\ incomeStats(gArgs.d)[idx].P = 2

\* C19: only newScenario replaces the scenario: a step of checkAnswers, of a
\* drop, of resetRound or of setActiveTab leaves its card lists, every card
\* and its meta record as they were; checkAnswers also leaves the placement
\* map as it was.
C19_ScenarioIsReadOnly ==
  [][/\ lastOp'.name # "newScenario" => scenario' = scenario
     /\ lastOp'.name = "checkAnswers" => placements' = placements]_vars

\* cards have been dropped and checked on another tab than the first, and
\* the scenario is still one that generateScenario returned
C19_Witness ==
  /\ scenario \in {scenarioOf[d] : d \in RoundDraws}
  /\ lastOp.name = "checkAnswers"
  /\ drops = MaxDrops
  /\ activeTab # "production"
  /\ report # NoReport
  /\ report.placed > 0

\* C20: within one generated scenario no two cards share an id, over the
\* production, expenditure and income cards together, distractors included.
C20_IdsAreUnique ==
  gOut # NoScenario =>
    \A i, j \in 1..Len(allCards(gOut)) :
      i # j => allCards(gOut)[i].id # allCards(gOut)[j].id

\* data.js has returned a scenario with the most distractors it can hold,
\* six in the expenditure ledger and four in the income ledger
C20_Witness ==
  /\ gArgs.gen = "data" /\ gOut # NoScenario
  /\ Cardinality({i \in 1..Len(gOut.expenditureCards) :
                    gOut.expenditureCards[i].correctBin = "E_XCL"}) = 6
  /\ Cardinality({i \in 1..Len(gOut.incomeCards) :
                    gOut.incomeCards[i].correctBin = "I_XCL"}) = 4

\* the amounts of the cards of one bin, added up
BinSum(cards, bin) ==
  SumSeq([i \in 1..Len(SelectSeq(cards, LAMBDA c : c.correctBin = bin)) |->
            SelectSeq(cards, LAMBDA c : c.correctBin = bin)[i].amount])

\* C21: in every scenario of data.js the cards made from one aggregate add
\* up to it: the E_C cards to C, the E_G cards to G, the E_X cards to X, the
\* E_M cards to M, the E_I cards to I_total = I_fixed + I_inv, and for each
\* firm the cards of its OUT bin to OUT and those of its INT bin to INT, with
\* OUT - INT = VA.
C21_GroupsSumToAggregates ==
  (gArgs.gen = "data" /\ gOut # NoScenario) =>
    /\ BinSum(gOut.expenditureCards, "E_C") = gOut.meta.components.C
    /\ BinSum(gOut.expenditureCards, "E_G") = gOut.meta.components.G
    /\ BinSum(gOut.expenditureCards, "E_X") = gOut.meta.components.X
    /\ BinSum(gOut.expenditureCards, "E_M") = gOut.meta.components.M
    /\ BinSum(gOut.expenditureCards, "E_I") = gOut.meta.components.I_total
    /\ gOut.meta.components.I_total
         = gOut.meta.components.I_fixed + gOut.meta.components.I_inv
    /\ \A idx \in 1..4 :
         /\ BinSum(gOut.productionCards, firms[idx].keyOut)
              = firmStats(gArgs.d)[idx].OUT
         /\ BinSum(gOut.productionCards, firms[idx].keyInt)
              = firmStats(gArgs.d)[idx].INT
         /\ firmStats(gArgs.d)[idx].OUT - firmStats(gArgs.d)[idx].INT
              = firmStats(gArgs.d)[idx].VA

\* a scenario has been returned whose inventories fall, on two cards, and
\* whose investment cards still add up to a positive I_total
C21_Witness ==
  /\ gArgs.gen = "data" /\ gOut # NoScenario
  /\ gOut.meta.components.I_inv < -1
  /\ Len(gOut.meta.inventoryCardIds) = 2
  /\ BinSum(gOut.expenditureCards, "E_I") > 0
  /\ BinSum(gOut.expenditureCards, "E_I") < gOut.meta.components.I_fixed

\* the expenditure cards marked as inventory investment
InventoryCards(sc) == {c \in Range(sc.expenditureCards) : c.subtype = "inventory"}

\* C22: in every scenario of data.js meta.inventoryCardIds is not empty and
\* holds exactly the ids of the expenditure cards of subtype inventory; each
\* of these cards has correctBin E_I, they all have the same sign, and their
\* amounts add up to meta.components.I_inv, which may be negative.
C22_InventoryCardsAreMarked ==
  (gArgs.gen = "data" /\ gOut # NoScenario) =>
    /\ Len(gOut.meta.inventoryCardIds) > 0
    /\ Range(gOut.meta.inventoryCardIds) = {c.id : c \in InventoryCards(gOut)}
    /\ Cardinality(Range(gOut.meta.inventoryCardIds))
         = Len(gOut.meta.inventoryCardIds)
    /\ \A c \in InventoryCards(gOut) :
         c.ledger = "expenditure" /\ c.correctBin = "E_I"
    /\ \/ \A c \in InventoryCards(gOut) : c.amount >= 0
       \/ \A c \in InventoryCards(gOut) : c.amount <= 0
    /\ SumSeq([i \in 1..Len(SelectSeq(gOut.expenditureCards,
                                      LAMBDA c : c.subtype = "inventory")) |->
                 SelectSeq(gOut.expenditureCards,
                           LAMBDA c : c.subtype = "inventory")[i].amount])
         = gOut.meta.components.I_inv

\* a scenario has been returned with two inventory cards that both record a
\* fall of inventories, next to fixed-investment cards in the same bin
C22_Witness ==
  /\ gArgs.gen = "data" /\ gOut # NoScenario
  /\ Cardinality({c.id : c \in InventoryCards(gOut)}) = 2
  /\ \A c \in InventoryCards(gOut) : c.amount < 0
  /\ \E c \in Range(gOut.expenditureCards) :
       c.correctBin = "E_I" /\ c.subtype = "fixed"

\* the noise terms at their ends and in the middle, for any target
NoiseEnds(T) ==
  [GDP_TARGET : {T}, nC : {-35, 0, 35}, nG : {-20, 0, 20}, nX : {-20, 0, 20},
   nM : {-25, 0, 25}, nI : {-25, 0, 25}, seed : {0}]

\* the inventory investment of meta.components lies in the band and the
\* expenditure identity gives the target
InBandAndExact(T, c) ==
  /\ IINV_MIN <= c.I_inv /\ c.I_inv <= IINV_MAX
  /\ c.C + c.I_fixed + c.I_inv + c.G + (c.X - c.M) = T

\* the same for every target of randInt(180, 520)
AllTargetsInBand ==
  \A T \in 180..520 : \A d \in NoiseEnds(T) : InBandAndExact(T, components(d))

\* C23: in data.js, for every GDP_TARGET in 180..520 and every draw of the
\* noise terms, after the two nudges of C the inventory investment satisfies
\* -60 <= I_inv <= 120 and C + I_fixed + I_inv + G + (X - M) = GDP_TARGET
\* holds exactly: I_inv is the recomputed residual, never a clamped value.
C23_NudgedInventoryInBand ==
  (gArgs.gen = "data" /\ gOut # NoScenario) =>
    /\ InBandAndExact(gOut.meta.gdpTarget, gOut.meta.components)
    /\ gOut.meta.components.I_inv
         = solveInventory(gArgs.d.GDP_TARGET, gOut.meta.components)
    /\ AllTargetsInBand

\* a scenario has been returned for which the first residual was below -60
\* and C was lowered until the residual came back to -60
C23_Witness ==
  /\ gArgs.gen = "data" /\ gOut # NoScenario
  /\ solveInventory(gArgs.d.GDP_TARGET, drawComponents(gArgs.d)) < IINV_MIN
  /\ gOut.meta.components.C < drawComponents(gArgs.d).C
  /\ gOut.meta.components.I_inv = IINV_MIN

\* C24: in data.js, for every draw, the four value-added shares are each at
\* least 10 and add up to GDP_TARGET (the drift correction on the first share
\* never brings it below 10), and each firm's intermediate input is at least
\* 0 with output = value added + intermediate input.
C24_ValueAddedShares ==
  (gArgs.gen = "data" /\ gOut # NoScenario) =>
    /\ Len(vaParts(gArgs.d)) = 4
    /\ \A idx \in 1..4 : vaParts(gArgs.d)[idx] >= 10
    /\ SumSeq(vaParts(gArgs.d)) = gArgs.d.GDP_TARGET
    /\ \A idx \in 1..4 :
         /\ firmStats(gArgs.d)[idx].VA = vaParts(gArgs.d)[idx]
         /\ firmStats(gArgs.d)[idx].INT >= 0
         /\ firmStats(gArgs.d)[idx].OUT
              = firmStats(gArgs.d)[idx].VA + firmStats(gArgs.d)[idx].INT

\* a scenario has been returned in which three firms have the least value
\* added, 10, and the fourth has the rest of the smallest target
C24_Witness ==
  /\ gArgs.gen = "data" /\ gOut # NoScenario
  /\ gArgs.d.GDP_TARGET = 180
  /\ Cardinality({idx \in 1..4 : vaParts(gArgs.d)[idx] = 10}) = 3
  /\ \E idx \in 1..4 : vaParts(gArgs.d)[idx] = 150 /\ firmStats(gArgs.d)[idx].INT > 0

----------------------------------------------------------------------------
(* Claims about the steps of newScenario                                   *)

\* C25: within newScenario the old placement is cleared before the new
\* scenario is installed: at no step does the scenario variable hold the new
\* scenario while the placement map still holds entries made for the
\* previous one.
C25_PlacementClearedFirst ==
  (lastOp.name = "newScenario:268") => (\A l \in Ledgers : placements[l] = <<>>)

----------------------------------------------------------------------------
(* Further claims about the page                                           *)

\* every card of the scenario has a placement entry, and it is its correctBin
AllPlacedCorrectly(sc, pl) ==
  \A c \in CardSet(sc) :
    c.id \in DOMAIN pl[c.ledger] /\ pl[c.ledger][c.id] = c.correctBin

\* C26 as claimed: whenever checkAnswers reports full reconciliation for a
\* scenario of data.js, every card of the scenario is placed and every placed
\* card is in its correctBin.
C26_PerfectMeansAllCorrect ==
  (report # NoReport /\ report.status.kind = "perfect") =>
    AllPlacedCorrectly(scenario, placements)

\* C26: whenever checkAnswers reports full reconciliation, at least one card
\* has a placement entry and the three totals read from the bins are equal;
\* nothing follows for the cards left in the pool or put in E_XCL or I_XCL.
C26_PerfectMeansEqualTotals ==
  (report # NoReport /\ report.status.kind = "perfect") =>
    /\ \E l \in Ledgers : DOMAIN placements[l] # {}
    /\ computeGDPProduction(doc) = computeGDPExpenditure(doc)
    /\ computeGDPExpenditure(doc) = computeGDPIncome(doc)

\* full reconciliation has been reported with a single card placed, a wage
\* card in I_XCL, which is not its correctBin
C26_Witness ==
  /\ report # NoReport
  /\ report.status.kind = "perfect"
  /\ report.placed = 1
  /\ report.correct = 0
  /\ \E c \in CardSet(scenario) :
       /\ c.correctBin = "I_W"
       /\ c.id \in DOMAIN placements.income
       /\ placements.income[c.id] = "I_XCL"
  /\ ~AllPlacedCorrectly(scenario, placements)

\* C27 as claimed, on the 3-firm page: every placement entry maps a card of
\* the ledger to a bin of BIN_IDS of that ledger.
C27_EntriesAreOwnLedgerBins ==
  \A l \in Ledgers : \A id \in DOMAIN placements[l] :
    /\ \E c \in CardSet(scenario) : c.id = id /\ c.ledger = l
    /\ placements[l][id] \in BIN_IDS3[l]

\* C27: every placement entry ever recorded belongs to a card of its own
\* ledger, and what it records is a bin of that ledger or, for a card dropped
\* back on the pool, the pool's undefined data-bin, which no handler takes
\* for a bin; no entry pairs a card with a bin of another ledger.
C27_EntriesAreOwnLedger ==
  \A l \in Ledgers : \A id \in DOMAIN placements[l] :
    /\ \E c \in CardSet(scenario) : c.id = id /\ c.ledger = l
    /\ placements[l][id] \in BIN_IDS3[l] \cup {NoBin}
    /\ placements[l][id] = NoBin => (id \in DOMAIN doc => doc[id].parent = "pool")
    /\ \A m \in Ledgers \ {l} : placements[l][id] \notin BIN_IDS3[m]

\* a card that lay in a bin has just been dropped back on the pool, and the
\* pool's data-bin was recorded for it
C27_Witness ==
  /\ lastOp.name = "drop"
  /\ lastOp.to = "pool"
  /\ lastOp.from \in BIN_IDS3[activeTab]
  /\ lastOp.id \in DOMAIN placements[activeTab]
  /\ placements[activeTab][lastOp.id] = NoBin
  /\ doc[lastOp.id].ledger = activeTab

----------------------------------------------------------------------------
(* Claims about the minimum of the cards data.js makes                     *)

\* the minPart generateScenario passes to partition for the cards of a bin
MinPartOf(c) ==
  IF c.correctBin \in {"P_S_OUT", "P_A_OUT", "P_P_OUT", "P_M_OUT"} THEN 3
  ELSE IF c.correctBin \in {"P_S_INT", "P_A_INT", "P_P_INT", "P_M_INT"} THEN 1
  ELSE IF c.correctBin = "E_C" THEN 5
  ELSE IF c.correctBin = "E_G" THEN 4
  ELSE IF c.correctBin = "E_X" THEN 3
  ELSE IF c.correctBin = "E_M" THEN 2
  ELSE IF c.correctBin = "E_I" /\ c.subtype = "fixed" THEN 5
  ELSE IF c.correctBin = "I_W" THEN 4
  ELSE IF c.correctBin = "I_P" THEN 2
  ELSE 0

\* the cards made from outputs, consumption, government, exports, imports
NeverDegraded(c) ==
  c.correctBin \in {"P_S_OUT", "P_A_OUT", "P_P_OUT", "P_M_OUT",
                    "E_C", "E_G", "E_X", "E_M"}

\* the fixed-investment cards
FixedCards(sc) == {c \in Range(sc.expenditureCards) : c.subtype = "fixed"}

\* C28 as claimed: no partition call of generateScenario takes the fallback:
\* every card of an output, intermediate, consumption, fixed-investment,
\* government, export, import, wage or profit aggregate has an amount of at
\* least the minPart passed for it, so none is 0.
C28_NoCardBelowMinimum ==
  (gArgs.gen = "data" /\ gOut # NoScenario) =>
    \A c \in CardSet(gOut) : MinPartOf(c) > 0 => c.amount >= MinPartOf(c)

\* C28: the cards of outputs, consumption, government purchases, exports and
\* imports are each at least their minPart (3, 5, 4, 3, 2): these calls
\* never take the fallback.  A card of intermediates, fixed investment,
\* wages or profits is at least its minPart or 0; it is 0 when the call took
\* the fallback (k * minPart above the aggregate), and then one card of the
\* aggregate carries all of it, as for fixed investment of 15 on four cards.
C28_MinimumOrDegraded ==
  (gArgs.gen = "data" /\ gOut # NoScenario) =>
    /\ \A c \in CardSet(gOut) :
         /\ NeverDegraded(c) => c.amount >= MinPartOf(c)
         /\ MinPartOf(c) > 0 => (c.amount = 0 \/ c.amount >= MinPartOf(c))
    /\ (\E c \in FixedCards(gOut) : c.amount = 0) =>
         /\ gOut.meta.components.I_fixed < 5 * Cardinality({c.id : c \in FixedCards(gOut)})
         /\ \E c \in FixedCards(gOut) :
              /\ c.amount = gOut.meta.components.I_fixed
              /\ \A o \in FixedCards(gOut) : o.id # c.id => o.amount = 0

\* a scenario has been returned in which fixed investment of 15 was asked on
\* four cards and a profit of 2 on two: both calls took the fallback
C28_Witness ==
  /\ gArgs.gen = "data" /\ gOut # NoScenario
  /\ gOut.meta.components.I_fixed = 15
  /\ Cardinality({c.id : c \in FixedCards(gOut)}) = 4
  /\ Cardinality({c.id : c \in {x \in FixedCards(gOut) : x.amount = 0}}) = 3
  /\ \E c \in Range(gOut.incomeCards) : c.correctBin = "I_P" /\ c.amount = 0
  /\ \E c \in Range(gOut.incomeCards) : c.correctBin = "I_P" /\ c.amount = 2

----------------------------------------------------------------------------
(* Claims about switching the ledger                                       *)

\* the card elements that lie in a bin
BinContents(d, bin) == {e \in DOMAIN d : d[e].parent = bin}

\* C29: setActiveTab leaves the placement map of all three ledgers as it was
\* and leaves the contents of every bin, hence the three totals and the gap
\* computed from them, as they were, in every reachable state, those reached
\* after a reset included.
C29_TabSwitchKeepsBins ==
  [][lastOp'.name = "setActiveTab" =>
       /\ placements' = placements
       /\ \A bin \in AllBins : BinContents(doc', bin) = BinContents(doc, bin)
       /\ updateTotals(doc') = updateTotals(doc)]_vars

====
